---- MODULE Spec2Model ----
(***************************************************************************)
(* Verification model of the cordon orchestrator:                          *)
(*   - AgentTeam (python/src/cordon/orchestrator.py): agent registry,      *)
(*     task decomposition, assignment and sequential execution;            *)
(*   - the tool loop of AnthropicAgent and BedrockLLMAgent;                *)
(*   - SupervisorAgent: construction and the send_messages fan-out.        *)
(* Text is modelled as a sequence of one-character strings so that the     *)
(* substring, split and strip operations of the code are computed.         *)
(***************************************************************************)
EXTENDS Integers, Sequences, FiniteSets, TLC

(***************************************************************************)
(* Bounds of the model.                                                    *)
(***************************************************************************)
\* longest task list given to execute_tasks_sequential
MaxList == 2

(***************************************************************************)
(* Text helpers.                                                           *)
(***************************************************************************)
Range(s) == {s[k] : k \in 1..Len(s)}

\* Python: sub in s
Contains(s, sub) ==
    \E k \in 0..(Len(s) - Len(sub)) : SubSeq(s, k + 1, k + Len(sub)) = sub

\* Python: str.lower(), on the letters the model's texts use
LowerChar(c) ==
    CASE c = "R" -> "r"
      [] c = "E" -> "e"
      [] c = "C" -> "c"
      [] OTHER -> c

Lower(s) == [k \in 1..Len(s) |-> LowerChar(s[k])]

IsSpace(c) == c = " "

RECURSIVE LStrip(_)
LStrip(s) == IF s # <<>> /\ IsSpace(Head(s)) THEN LStrip(Tail(s)) ELSE s

RECURSIVE RStrip(_)
RStrip(s) ==
    IF s # <<>> /\ IsSpace(s[Len(s)]) THEN RStrip(SubSeq(s, 1, Len(s) - 1)) ELSE s

\* Python: str.strip()
Strip(s) == RStrip(LStrip(s))

\* index of the first occurrence of character c in s, 0 when absent
FirstIndex(s, c) ==
    IF c \in Range(s) THEN CHOOSE k \in 1..Len(s) : s[k] = c /\ \A j \in 1..(k - 1) : s[j] # c
    ELSE 0

(***************************************************************************)
(* The values of the orchestrator.                                         *)
(***************************************************************************)
NoAgent == "None"

\* agents that can be registered with add_agent
AgentPool == {"Researcher", "CommandExecutor"}
\* the classifier agent given to add_supervisor
SupervisorName == "Supervisor"
\* a name no add_agent or add_supervisor call ever used
GhostName == "Ghost"

AssignableNames == AgentPool \cup {SupervisorName, GhostName}

\* TaskStatus
PENDING == "pending"
RUNNING == "running"
COMPLETED == "completed"
FAILED == "failed"

\* task descriptions the model draws from
DescPlain == <<"s", "a", "y", " ", "h", "i">>
DescRun == <<"R", "u", "n", ":", " ", "l", "s">>
DescCommand == <<"c", "o", "m", "m", "a", "n", "d">>
Descriptions == {DescPlain, DescRun, DescCommand}

\* str(e) of the exceptions an agent raises: Exception() has the empty text
ErrorTexts == {"", "boom"}

Flows == {1, 2}

\* Task.id is a uuid4: the k-th Task object of the list of flow f has its own id
TaskId(f, k) == 10 * f + k

\* Task(description=d, assigned_agent=a): a new Pending task
NoError == "<None>"

NewTask(id, d, a) ==
    [id |-> id, description |-> d, assigned_agent |-> a, status |-> PENDING]

VARIABLES
    agents,                  \* AgentTeam.agents: list of agent names
    supervisor,              \* AgentTeam.supervisor: a name or NoAgent
    agent_availability,      \* AgentTeam.agent_availability: name -> BOOLEAN
    agent_task_assignments,  \* AgentTeam.agent_task_assignments: name -> set of task ids
    command_execution_enabled,
    call,                    \* per flow: the execute_tasks_sequential call and its Task objects
    events                   \* per flow: the progress events of the call, in order

VARIABLES
    split,                   \* the split_input_into_tasks call and its classifier
    toolLoop,                \* the process_request of a provider-backed agent
    fanout,                  \* the send_messages call of a SupervisorAgent
    construction,            \* the SupervisorAgent(options) call and its lead agent
    proc,                    \* the execute_command call and its child process
    assign,                  \* the assign_tasks_to_agents call and its Task objects
    report,                  \* self.tasks, a result list and the coordinate_responses call
    built,                   \* the constructor call of a provider or callable-backed agent
    sup,                     \* the process_request calls in flight on one SupervisorAgent
    single,                  \* one Task object and the _execute_single_task calls made for it
    route                    \* one route_request call on the team

orchVars == <<agents, supervisor, agent_availability, agent_task_assignments,
              command_execution_enabled, call, events>>

\* the state of the assignment call and of the report
moreVars == <<assign, report, built, sup, single, route>>

\* the state outside the registry and the execution engine
restVars == <<split, toolLoop, fanout, construction, proc, moreVars>>

vars == <<orchVars, restVars>>

\* pc: idle | loop | agent_call | command_call | finishing | done | raised
\* again: the list holds the Task objects of the call before;
\* tasks: the Task objects of the list; i: the loop index; results: the list
\* being built; agent: the agent _execute_single_task resolved; outcome, error:
\* how the body of its try block ended; agent_raised: the list positions whose
\* agent raised in process_request; input: the text of the last process_request
\* call; output: the output of the try block; outputs: TaskResult.output of the
\* results, in order; invocations: the arguments of the process_request calls
\* made, in order
IdleCall == [pc |-> "idle", again |-> FALSE, tasks |-> <<>>, i |-> 1, results |-> <<>>,
             agent |-> NoAgent, outcome |-> "none", error |-> "", agent_raised |-> {},
             input |-> <<>>, output |-> <<>>, outputs |-> <<>>, invocations |-> <<>>]

\* Python dict: d[k] = v (adds the key when absent)
DictSet(d, k, v) == [x \in (DOMAIN d) \cup {k} |-> IF x = k THEN v ELSE d[x]]

EmptyDict == [x \in {} |-> TRUE]

\* AgentTeam.__init__
InitTeam ==
    /\ agents = <<>>
    /\ supervisor = NoAgent
    /\ agent_availability = EmptyDict
    /\ agent_task_assignments = EmptyDict
    /\ command_execution_enabled = TRUE
    /\ call = [f \in Flows |-> IdleCall]
    /\ events = [f \in Flows |-> <<>>]

(***************************************************************************)
(* Scheduling: the flows are coroutines of one event loop.  The code       *)
(* between two awaits runs without interleaving; a flow is suspended only  *)
(* in agent_call (await agent.process_request) and command_call (await of  *)
(* the child process).                                                     *)
(***************************************************************************)
InAtomicSection(f) == call[f].pc \in {"loop", "finishing"}

\* flow f may take a step: no other flow is inside an atomic section
MayRun(f) == \A g \in Flows \ {f} : ~InAtomicSection(g)

\* an operation from outside the flows (a registry change) may run
LoopFree == \A g \in Flows : ~InAtomicSection(g)

(***************************************************************************)
(* Registry operations.                                                    *)
(***************************************************************************)
\* AgentTeam.add_agent
AddAgent(n) ==
    /\ LoopFree
    /\ n \notin Range(agents)
    /\ agents' = Append(agents, n)
    /\ agent_availability' = DictSet(agent_availability, n, TRUE)
    /\ agent_task_assignments' = DictSet(agent_task_assignments, n, {})
    /\ UNCHANGED restVars
    /\ UNCHANGED <<supervisor, command_execution_enabled, call, events>>

\* AgentTeam.add_supervisor
AddSupervisor ==
    /\ LoopFree
    /\ supervisor = NoAgent
    /\ supervisor' = SupervisorName
    /\ agent_availability' = DictSet(agent_availability, SupervisorName, TRUE)
    /\ agent_task_assignments' = DictSet(agent_task_assignments, SupervisorName, {})
    /\ UNCHANGED restVars
    /\ UNCHANGED <<agents, command_execution_enabled, call, events>>

\* list.pop(i) for the first i with agents[i] = n
RemoveFirst(s, n) ==
    LET k == FirstIndex(s, n)
    IN  SubSeq(s, 1, k - 1) \o SubSeq(s, k + 1, Len(s))

\* AgentService.remove_agent: the agent leaves AgentTeam.agents; its entries
\* in agent_availability and agent_task_assignments stay
RemoveAgent(n) ==
    /\ LoopFree
    /\ n \in Range(agents)
    /\ agents' = RemoveFirst(agents, n)
    /\ UNCHANGED restVars
    /\ UNCHANGED <<supervisor, agent_availability, agent_task_assignments,
                   command_execution_enabled, call, events>>

\* AgentTeam.enable_command_execution
EnableCommandExecution(enabled) ==
    /\ LoopFree
    /\ command_execution_enabled # enabled
    /\ command_execution_enabled' = enabled
    /\ UNCHANGED restVars
    /\ UNCHANGED <<agents, supervisor, agent_availability, agent_task_assignments,
                   call, events>>

(***************************************************************************)
(* _execute_single_task and execute_tasks_sequential.                      *)
(***************************************************************************)
NoCommand == <<"<", "N", "o", "n", "e", ">">>
NoAgentError == "No agent found for task"

KwRunColon == <<"r", "u", "n", ":">>
KwExecuteColon == <<"e", "x", "e", "c", "u", "t", "e", ":">>
KwCommand == <<"c", "o", "m", "m", "a", "n", "d">>

\* any(keyword in task_desc_lower for keyword in ['run:', 'execute:', 'command'])
IsCommandTask(d) ==
    \E kw \in {KwRunColon, KwExecuteColon, KwCommand} : Contains(Lower(d), kw)

\* _extract_command_from_task: task.description.split(':', 1)[1].strip(), or None
ExtractCommand(d) ==
    IF Contains(Lower(d), KwRunColon) \/ Contains(Lower(d), KwExecuteColon)
    THEN LET k == FirstIndex(d, ":")
         IN  IF k > 0 THEN Strip(SubSeq(d, k + 1, Len(d))) ELSE NoCommand
    ELSE NoCommand

\* Python truth value of the extracted command: None and '' are false
CommandFound(cmd) == cmd # NoCommand /\ cmd # <<>>

\* for a in self.agents: if a.name == task.assigned_agent: agent = a; break
ResolveAgent(registry, assigned) ==
    IF assigned \in Range(registry) THEN assigned ELSE NoAgent

Event(type, id) == [type |-> type, task_id |-> id]

\* mutant: the finally block does not release the agent
ReleaseAvailability_Skipped(av, assigned) == av

\* the finally block: self.agent_availability[task.assigned_agent] = True
ReleaseAvailability(av, assigned) ==
    IF assigned # NoAgent THEN DictSet(av, assigned, TRUE) ELSE av

\* the finally block: self.agent_task_assignments[task.assigned_agent] raises
\* KeyError when the name is not a key
FinallyRaises(assignments, assigned) ==
    assigned # NoAgent /\ assigned \notin DOMAIN assignments

\* the finally block: self.agent_task_assignments[...].discard(task.id)
DiscardAssignment(assignments, assigned, id) ==
    IF assigned # NoAgent /\ assigned \in DOMAIN assignments
    THEN [assignments EXCEPT ![assigned] = @ \ {id}]
    ELSE assignments

\* TaskResult(task_id=task.id, success=..., error=str(e) or None, metadata={"agent": ...})
TaskResult(t, agent, outcome, error) ==
    [task_id |-> t.id,
     success |-> (outcome = "completed"),
     error   |-> IF outcome = "completed" THEN NoError ELSE error,
     agent   |-> IF outcome = "completed" THEN agent ELSE t.assigned_agent]

\* task.error_message after the try block: untouched at its end, str(e) in
\* the handler
ErrorMessage(error_message, outcome, error) ==
    IF outcome = "completed" THEN error_message ELSE error

\* task.output_data = {"result": output}
OutputData(output) == <<"result", output>>

\* task.status after the try block: COMPLETED at its end, FAILED in the handler
FinalStatus(outcome) == IF outcome = "completed" THEN COMPLETED ELSE FAILED

TaskSpec(d, a) == [description |-> d, assigned_agent |-> a]

\* the tasks the model passes to execution: one for each path through
\* _execute_single_task (agent call, command, no command in the text) and one
\* for each kind of assigned_agent (registered or removed, never registered, unset)
TaskSpecs ==
    {TaskSpec(DescPlain, "Researcher"),
     TaskSpec(DescRun, "CommandExecutor"),
     TaskSpec(DescCommand, "CommandExecutor"),
     TaskSpec(DescPlain, GhostName),
     TaskSpec(DescRun, NoAgent)}

TaskLists == UNION {[1..n -> TaskSpecs] : n \in 0..MaxList}

\* execute_tasks_sequential(tasks) is called with new Task objects
ExecuteTasksSequential(f, list) ==
    /\ MayRun(f)
    /\ call[f].pc \in {"idle", "done", "raised"}
    /\ call' = [call EXCEPT ![f] =
            [IdleCall EXCEPT
                !.pc = "loop",
                !.tasks = [k \in 1..Len(list) |->
                             NewTask(TaskId(f, k), list[k].description,
                                     list[k].assigned_agent)]]]
    /\ events' = [events EXCEPT ![f] = <<>>]
    /\ UNCHANGED restVars
    /\ UNCHANGED <<agents, supervisor, agent_availability, agent_task_assignments,
                   command_execution_enabled>>

\* execute_tasks_sequential(tasks) is called again with the Task objects of
\* the call before
ExecuteAgain(f) ==
    /\ MayRun(f)
    /\ call[f].pc \in {"done", "raised"}
    /\ call[f].tasks # <<>>
    /\ call' = [call EXCEPT ![f] =
            [IdleCall EXCEPT !.pc = "loop", !.again = TRUE, !.tasks = call[f].tasks]]
    /\ events' = [events EXCEPT ![f] = <<>>]
    /\ UNCHANGED restVars
    /\ UNCHANGED <<agents, supervisor, agent_availability, agent_task_assignments,
                   command_execution_enabled>>

\* mutant: the agent call is not awaited, the loop goes on at once
Dispatch_NoAwait(t, agent, enabled) ==
    <<"loop", "none", <<Event("agent_processing", t.id)>> >>

\* where _execute_single_task goes after it marked the agent busy:
\* <<pc, outcome, events>>
Dispatch(t, agent, enabled) ==
    IF IsCommandTask(t.description)
    THEN IF CommandFound(ExtractCommand(t.description))
         THEN IF enabled
              THEN <<"command_call", "none",
                     <<Event("command_execution", t.id), Event("terminal_output", 0)>> >>
              ELSE <<"finishing", "completed", <<Event("command_execution", t.id)>> >>
         ELSE <<"finishing", "completed", <<Event("command_error", t.id)>> >>
    ELSE <<"agent_call", "none", <<Event("agent_processing", t.id)>> >>

\* the first argument of agent.process_request(task.description, "task_user",
\* f"task_{task.id}", chat_history), with chat_history = []
ProcessRequestInput(t) == t.description

\* one session id for every task
SessionId_Shared(id) == <<"task_", 0>>

\* f"task_{task.id}"
SessionId(id) == <<"task_", id>>

\* the arguments of agent.process_request(task.description, "task_user",
\* f"task_{task.id}", chat_history) with chat_history = [], and the task they
\* are made for
Invocation(t) ==
    [text |-> ProcessRequestInput(t), user_id |-> "task_user",
     session_id |-> SessionId(t.id), chat_history |-> <<>>, task_id |-> t.id]

\* the text of the response of an agent that answers with its prompt in quotes
AgentReply(prompt) == <<"'">> \o prompt \o <<"'">>

\* TaskResult.output of a task that did not complete
NoOutput == <<>>

\* the loop body up to the first await: the task_started event, then in
\* _execute_single_task status = RUNNING, the agent lookup, the busy mark and
\* the choice between the command path and the agent path
StartTask(f) ==
    /\ MayRun(f)
    /\ call[f].pc = "loop"
    /\ call[f].i <= Len(call[f].tasks)
    /\ LET c == call[f]
           t == c.tasks[c.i]
           agent == ResolveAgent(agents, t.assigned_agent)
           d == Dispatch(t, agent, command_execution_enabled)
           started == [c EXCEPT !.tasks[c.i].status = RUNNING, !.agent = agent]
       IN  IF agent = NoAgent
           THEN /\ call' = [call EXCEPT ![f] =
                        [started EXCEPT !.pc = "finishing", !.outcome = "exception",
                                        !.error = NoAgentError]]
                /\ events' = [events EXCEPT ![f] = Append(@, Event("task_started", t.id))]
                /\ UNCHANGED agent_availability
           ELSE /\ call' = [call EXCEPT ![f] =
                        [started EXCEPT !.pc = d[1], !.outcome = d[2],
                                        !.input = IF d[1] = "agent_call"
                                                  THEN ProcessRequestInput(t) ELSE @,
                                        !.invocations = IF d[1] = "agent_call"
                                                        THEN Append(@, Invocation(t))
                                                        ELSE @]]
                /\ events' = [events EXCEPT ![f] =
                        Append(@, Event("task_started", t.id)) \o d[3]]
                /\ agent_availability' = DictSet(agent_availability, agent, FALSE)
    /\ UNCHANGED restVars
    /\ UNCHANGED <<agents, supervisor, agent_task_assignments, command_execution_enabled>>

\* await agent.process_request(...) returns a response
AgentReturns(f) ==
    /\ MayRun(f)
    /\ call[f].pc = "agent_call"
    /\ call' = [call EXCEPT ![f].pc = "finishing", ![f].outcome = "completed",
                            ![f].output = AgentReply(call[f].input)]
    /\ UNCHANGED restVars
    /\ UNCHANGED <<agents, supervisor, agent_availability, agent_task_assignments,
                   command_execution_enabled, events>>

\* await agent.process_request(...) raises an exception e with str(e) = msg
AgentRaises(f, msg) ==
    /\ MayRun(f)
    /\ call[f].pc = "agent_call"
    /\ call' = [call EXCEPT ![f].pc = "finishing", ![f].outcome = "exception",
                            ![f].error = msg,
                            ![f].agent_raised = @ \cup {call[f].i}]
    /\ UNCHANGED restVars
    /\ UNCHANGED <<agents, supervisor, agent_availability, agent_task_assignments,
                   command_execution_enabled, events>>

\* a command that failed fails the task
CommandOutcome_ChecksSuccess(success) == IF success THEN "completed" ELSE "exception"

\* "output = result": the result dict of execute_command becomes the output,
\* its success flag is not looked at and the try block runs to its end
CommandOutcome(success) == "completed"

\* await self.execute_command(...) returns its result dict (it never raises),
\* with result["success"] = success
CommandReturns(f, success) ==
    /\ MayRun(f)
    /\ call[f].pc = "command_call"
    /\ call' = [call EXCEPT ![f].pc = "finishing", ![f].outcome = CommandOutcome(success)]
    /\ events' = [events EXCEPT ![f] = Append(@, Event("terminal_output", 0))]
    /\ UNCHANGED restVars
    /\ UNCHANGED <<agents, supervisor, agent_availability, agent_task_assignments,
                   command_execution_enabled>>

\* the end of _execute_single_task (status, TaskResult, the finally block) and
\* the rest of the loop body (results.append, task_completed / task_failed)
FinishTask(f) ==
    /\ MayRun(f)
    /\ call[f].pc = "finishing"
    /\ LET c == call[f]
           t == c.tasks[c.i]
           r == TaskResult(t, c.agent, c.outcome, c.error)
           done == [c EXCEPT !.tasks[c.i].status = FinalStatus(c.outcome),
                             !.outcome = "none", !.error = "", !.output = NoOutput]
       IN  /\ agent_availability' = ReleaseAvailability(agent_availability, t.assigned_agent)
           /\ agent_task_assignments' =
                  DiscardAssignment(agent_task_assignments, t.assigned_agent, t.id)
           /\ IF FinallyRaises(agent_task_assignments, t.assigned_agent)
              THEN /\ call' = [call EXCEPT ![f] = [done EXCEPT !.pc = "raised"]]
                   /\ UNCHANGED events
              ELSE /\ call' = [call EXCEPT ![f] =
                           [done EXCEPT !.pc = "loop", !.i = c.i + 1,
                                        !.results = Append(c.results, r),
                                        !.outputs = Append(c.outputs,
                                            IF r.success THEN c.output ELSE NoOutput)]]
                   /\ events' = [events EXCEPT ![f] = Append(@,
                           Event(IF r.success THEN "task_completed" ELSE "task_failed", t.id))]
    /\ UNCHANGED restVars
    /\ UNCHANGED <<agents, supervisor, command_execution_enabled>>

\* return results
ReturnResults(f) ==
    /\ MayRun(f)
    /\ call[f].pc = "loop"
    /\ call[f].i > Len(call[f].tasks)
    /\ call' = [call EXCEPT ![f].pc = "done"]
    /\ UNCHANGED restVars
    /\ UNCHANGED <<agents, supervisor, agent_availability, agent_task_assignments,
                   command_execution_enabled, events>>

\* the steps of one flow
FlowStep(f) ==
    \/ \E list \in TaskLists : ExecuteTasksSequential(f, list)
    \/ ExecuteAgain(f)
    \/ StartTask(f)
    \/ AgentReturns(f)
    \/ \E msg \in ErrorTexts : AgentRaises(f, msg)
    \/ \E ok \in BOOLEAN : CommandReturns(f, ok)
    \/ FinishTask(f)
    \/ ReturnResults(f)

RegistryStep ==
    \/ \E n \in AgentPool : AddAgent(n)
    \/ \E n \in AgentPool : RemoveAgent(n)

\* one request at a time: the only flow is flow 1
Next ==
    \/ RegistryStep
    \/ FlowStep(1)


(***************************************************************************)
(* Properties of execute_tasks_sequential.                                 *)
(***************************************************************************)
Ended(f) == call[f].pc \in {"done", "raised"}

TERMINAL == {COMPLETED, FAILED}

\* the progress events of flow f that carry the id of the task at position k
EventsOf(f, k) ==
    {n \in 1..Len(events[f]) : events[f][n].task_id = call[f].tasks[k].id}

\* the task at position k of the list has been started by the current call
Started(f, k) ==
    \E n \in EventsOf(f, k) : events[f][n].type = "task_started"

StartedCount(f) ==
    Cardinality({n \in 1..Len(events[f]) : events[f][n].type = "task_started"})

\* C1: every execute_tasks_sequential call that ends returns one TaskResult
\* per input task, in input order, whatever the tasks' assigned agents are
C1_OneResultPerTask ==
    \A f \in Flows :
        Ended(f) =>
            /\ call[f].pc = "done"
            /\ Len(call[f].results) = Len(call[f].tasks)
            /\ \A k \in 1..Len(call[f].tasks) :
                   call[f].results[k].task_id = call[f].tasks[k].id

\* C2: a task whose agent raised gets a failed TaskResult with a non-empty
\* error and status Failed, and every later task of the list is still started
C2_FailureDoesNotStopPipeline ==
    \A f \in Flows : \A n \in call[f].agent_raised :
        /\ n <= Len(call[f].results) =>
               /\ call[f].results[n].success = FALSE
               /\ call[f].results[n].error # ""
               /\ call[f].results[n].error # NoError
               /\ call[f].tasks[n].status = FAILED
        /\ Ended(f) =>
               /\ n <= Len(call[f].results)
               /\ \A m \in (n + 1)..Len(call[f].tasks) :
                      /\ Started(f, m)
                      /\ call[f].tasks[m].status \in TERMINAL

\* a step of flow f that replaces its Task objects by new ones
NewObjects(f) ==
    /\ call[f].pc \in {"idle", "done", "raised"}
    /\ call'[f].pc = "loop"
    /\ ~call'[f].again

LegalTransition(a, b) ==
    \/ a = b
    \/ a = PENDING /\ b = RUNNING
    \/ a = RUNNING /\ b \in TERMINAL

\* C3: the status of a Task object only moves Pending -> Running ->
\* Completed | Failed, also when the object is executed more than once
C3_StatusOneWay ==
    [][\A f \in Flows :
          ~NewObjects(f) =>
              \A k \in 1..Len(call[f].tasks) :
                  LegalTransition(call[f].tasks[k].status, call'[f].tasks[k].status)]_vars

C5_StrictlySequential ==
    \A f \in Flows :
        /\ Cardinality({k \in 1..Len(call[f].tasks) :
                            call[f].tasks[k].status = RUNNING}) <= 1
        /\ StartedCount(f) <= Len(call[f].results) + 1
        /\ \A k \in 1..Len(call[f].tasks) :
               Started(f, k) => Len(call[f].results) >= k - 1
        /\ \A k \in 1..Len(call[f].tasks) :
               (~Started(f, k) /\ ~call[f].again) =>
                   /\ call[f].tasks[k].status = PENDING
                   /\ EventsOf(f, k) = {}

\* the second task is in its agent call after the first one has failed
C5_Witness ==
    /\ call[1].pc = "agent_call"
    /\ call[1].i = 2
    /\ Len(call[1].results) = 1
    /\ ~call[1].results[1].success

(***************************************************************************)
(* Decomposition: split_input_into_tasks.                                  *)
(***************************************************************************)
\* longest user input, in characters
MaxInput == 3

InputAlphabet == {"a", ".", " "}
UserInputs == UNION {[1..n -> InputAlphabet] : n \in 0..MaxInput}

\* index of the last occurrence of c in s, 0 when absent
LastIndex(s, c) ==
    IF c \in Range(s) THEN CHOOSE k \in 1..Len(s) : s[k] = c /\ \A j \in (k + 1)..Len(s) : s[j] # c
    ELSE 0

\* Python: s.split(c)
RECURSIVE SplitOn(_, _)
SplitOn(s, c) ==
    LET k == FirstIndex(s, c)
    IN  IF k = 0 THEN <<s>>
        ELSE <<SubSeq(s, 1, k - 1)>> \o SplitOn(SubSeq(s, k + 1, Len(s)), c)

\* Task(description=d, assigned_agent=a, priority=p) before its id is drawn
SplitTask(d, a, p) ==
    [description |-> d, assigned_agent |-> a, priority |-> p, status |-> PENDING]

\* the loop of _simple_task_splitting from list position i (enumerate index i - 1)
RECURSIVE SentencesToTasks(_, _)
SentencesToTasks(sentences, i) ==
    IF i > Len(sentences) THEN <<>>
    ELSE LET sentence == Strip(sentences[i])
         IN  (IF sentence = <<>> THEN <<>> ELSE <<SplitTask(sentence, NoAgent, i - 1)>>)
             \o SentencesToTasks(sentences, i + 1)

\* AgentTeam._simple_task_splitting
SimpleTaskSplitting(user_input) == SentencesToTasks(SplitOn(user_input, "."), 1)

(***************************************************************************)
(* The classifier's reply is a text of lexemes:                            *)
(*   "[" "]" ","          the punctuation of a JSON array                  *)
(*   "1"                  a JSON number                                    *)
(*   "{}" "{d}" "{dap}"   JSON object literals (no brackets inside)        *)
(*   "x"                  prose that is no JSON                            *)
(*   "fence"              a markdown fence (three backquotes)              *)
(***************************************************************************)
Fence == "fence"
ObjectTokens == {"{}", "{d}", "{dap}"}
ScalarTokens == {"1"}

\* the dict json.loads builds from an object literal
ObjDict(tok) ==
    CASE tok = "{d}" -> [description |-> <<"a">>]
      [] tok = "{dap}" -> [description |-> <<"b">>, assigned_agent |-> "Researcher",
                           priority |-> 7]
      [] OTHER -> EmptyDict

\* Python: d.get(k, default)
DictGet(d, k, default) == IF k \in DOMAIN d THEN d[k] ELSE default

\* re.search for an opening bracket, anything, a closing bracket (greedy,
\* DOTALL): from the first "[" to the last "]"
SearchArray(text) ==
    LET a == FirstIndex(text, "[")
        b == LastIndex(text, "]")
    IN  IF a # 0 /\ b > a THEN [found |-> TRUE, text |-> SubSeq(text, a, b)]
        ELSE [found |-> FALSE, text |-> <<>>]

IsObjectAt(text, k) == text[k] \in ObjectTokens

\* re.search for an opening brace, anything, a closing brace (greedy, DOTALL):
\* from the first object literal to the last one
SearchObject(text) ==
    LET ks == {k \in 1..Len(text) : IsObjectAt(text, k)}
    IN  IF ks # {}
        THEN [found |-> TRUE,
              text |-> SubSeq(text, CHOOSE k \in ks : \A j \in ks : k <= j,
                                    CHOOSE k \in ks : \A j \in ks : k >= j)]
        ELSE [found |-> FALSE, text |-> <<>>]

\* json.loads, the grammar: the position after the value that starts at i, 0
\* when no value starts there
RECURSIVE ValueEnd(_, _), ElementsEnd(_, _)
ValueEnd(s, i) ==
    IF i > Len(s) THEN 0
    ELSE IF s[i] \in ScalarTokens \cup ObjectTokens THEN i + 1
    ELSE IF s[i] = "[" THEN
        IF i + 1 <= Len(s) /\ s[i + 1] = "]" THEN i + 2 ELSE ElementsEnd(s, i + 1)
    ELSE 0

ElementsEnd(s, i) ==
    LET j == ValueEnd(s, i)
    IN  IF j = 0 \/ j > Len(s) THEN 0
        ELSE IF s[j] = "]" THEN j + 1
        ELSE IF s[j] = "," THEN ElementsEnd(s, j + 1)
        ELSE 0

\* json.loads(s) does not raise JSONDecodeError
IsJson(s) == s # <<>> /\ ValueEnd(s, 1) = Len(s) + 1

\* the elements of the array s from position i on
RECURSIVE ElementsFrom(_, _)
ElementsFrom(s, i) ==
    IF s[i] = "]" THEN <<>>
    ELSE LET j == ValueEnd(s, i)
         IN  <<SubSeq(s, i, j - 1)>> \o ElementsFrom(s, IF s[j] = "," THEN j + 1 ELSE j)

\* json.loads(s) followed by "if not isinstance(tasks_data, list)"
JsonDecode(s) == IF s[1] = "[" THEN ElementsFrom(s, 2) ELSE <<s>>

\* isinstance(task_data, dict)
IsDict(e) == Len(e) = 1 /\ e[1] \in ObjectTokens

\* the conversion loop of _parse_supervisor_response from list position i
RECURSIVE TasksFromData(_, _)
TasksFromData(data, i) ==
    IF i > Len(data) THEN <<>>
    ELSE (IF IsDict(data[i])
          THEN LET d == ObjDict(data[i][1])
               IN  <<SplitTask(DictGet(d, "description", <<>>),
                               DictGet(d, "assigned_agent", ""),
                               DictGet(d, "priority", i - 1))>>
          ELSE <<>>)
         \o TasksFromData(data, i + 1)

\* the two re.sub calls that delete the markdown fences
RemoveFences(s) == SelectSeq(s, LAMBDA t : t # Fence)

\* the JSON text _parse_supervisor_response extracts from the reply
JsonCandidate(text) ==
    LET arr == SearchArray(text)
        obj == SearchObject(text)
    IN  IF arr.found THEN arr
        ELSE IF obj.found THEN [found |-> TRUE, text |-> <<"[">> \o obj.text \o <<"]">>]
        ELSE [found |-> FALSE, text |-> <<>>]

\* AgentTeam._parse_supervisor_response: raised is the ValueError
ParseSupervisorResponse(text) ==
    LET c == JsonCandidate(text)
        cleaned == RemoveFences(c.text)
    IN  IF ~c.found THEN [raised |-> TRUE, tasks |-> <<>>]
        ELSE IF IsJson(c.text)
        THEN [raised |-> FALSE, tasks |-> TasksFromData(JsonDecode(c.text), 1)]
        ELSE IF IsJson(cleaned)
        THEN [raised |-> FALSE, tasks |-> TasksFromData(JsonDecode(cleaned), 1)]
        ELSE [raised |-> TRUE, tasks |-> <<>>]

\* replies of the classifier the model draws from
Replies == {
    <<>>,                                      \* empty text
    <<"x">>,                                   \* prose only
    <<"]", "x", "[">>,                         \* brackets, none closing an open one
    <<"[", "x", "]">>,                         \* bracketed prose
    <<"[", "]", "]">>,                         \* the greedy match is no JSON
    <<"{d}", "x", "{dap}">>,                   \* two objects and prose between them
    <<"[", "]">>,                              \* an empty array
    <<"[", "1", "]">>,                         \* an array without objects
    <<"{d}">>,                                 \* a single object, no array
    <<"x", "[", "{dap}", ",", "{}", "]", "x">>,\* an array inside prose
    <<"[", Fence, "{d}", Fence, "]">>,         \* fences inside the array
    <<"[", "1", ",", "{d}", ",", "[", "{}", "]", "]">> \* objects and non-objects
}

\* what supervisor.process_request does when called: raise, or return reply
Scripts ==
    {[raises |-> TRUE, reply |-> <<>>]} \cup {[raises |-> FALSE, reply |-> r] : r \in Replies}

\* pc: idle | classifier_call | returned | raised
\* user_input, script: the arguments and the classifier of the call;
\* had_supervisor: self.supervisor was set when the call began; tasks: the
\* returned list; first: the list the call before returned; calls: number of
\* calls made; issued: number of Task ids drawn so far; started: the tasks
\* route_request has started, in the order of their start
IdleSplit == [pc |-> "idle", user_input |-> <<>>, script |-> [raises |-> TRUE, reply |-> <<>>],
              had_supervisor |-> FALSE, tasks |-> <<>>, first |-> <<>>, calls |-> 0,
              issued |-> 0, classifier_calls |-> 0, chat_history |-> <<>>,
              started |-> <<>>]

InitSplit == split = IdleSplit

\* the uuid4 ids of new Task objects: the next unused numbers
WithIds(tasks, issued) ==
    [k \in 1..Len(tasks) |->
        [id |-> issued + k, description |-> tasks[k].description,
         assigned_agent |-> tasks[k].assigned_agent, priority |-> tasks[k].priority,
         status |-> tasks[k].status]]

\* a task list without the ids
StripIds(tasks) ==
    [k \in 1..Len(tasks) |->
        SplitTask(tasks[k].description, tasks[k].assigned_agent, tasks[k].priority)]

\* "except Exception" of split_input_into_tasks, with the exception propagated
\* to the caller instead
SplitFailure_Propagated(user_input) == [pc |-> "raised", tasks |-> <<>>]

\* "except Exception" of split_input_into_tasks: return the fallback split
SplitFailure(user_input) == [pc |-> "returned", tasks |-> SimpleTaskSplitting(user_input)]

\* the split record after the call ended as end (a pc and a task list)
SplitEnded(s, end) ==
    [s EXCEPT !.pc = end.pc,
              !.tasks = WithIds(end.tasks, s.issued),
              !.issued = s.issued + Len(end.tasks)]

\* the classifier is asked, and asked again
ClassifierAsked_Twice(n) == n + 2

\* the number of process_request calls on the classifier after the one call
\* of the try block
ClassifierAsked(n) == n + 1

\* chat_history = []
EmptyChatHistory == <<>>

\* split_input_into_tasks up to "await self.supervisor.process_request", for
\* the split record s of a call that begins
SplitBegin(s) ==
    IF supervisor = NoAgent
    THEN SplitEnded([s EXCEPT !.had_supervisor = FALSE, !.classifier_calls = 0],
                    [pc |-> "returned", tasks |-> SimpleTaskSplitting(s.user_input)])
    ELSE [s EXCEPT !.pc = "classifier_call", !.had_supervisor = TRUE,
                   !.classifier_calls = ClassifierAsked(0),
                   !.chat_history = EmptyChatHistory]

\* AgentTeam.split_input_into_tasks(user_input), first call
SplitInputIntoTasks(user_input, script) ==
    /\ split.pc = "idle"
    /\ split' = SplitBegin([split EXCEPT !.user_input = user_input, !.script = script,
                                         !.calls = 1])
    /\ UNCHANGED <<moreVars, proc, orchVars, toolLoop, fanout, construction>>

\* AgentTeam.split_input_into_tasks with the same input and the same classifier
SplitAgain ==
    /\ split.pc = "returned"
    /\ split.calls = 1
    /\ split' = SplitBegin([split EXCEPT !.first = split.tasks, !.tasks = <<>>, !.calls = 2,
                                         !.started = <<>>])
    /\ UNCHANGED <<moreVars, proc, orchVars, toolLoop, fanout, construction>>

\* supervisor.process_request returns: the reply is parsed
ClassifierReturns ==
    /\ split.pc = "classifier_call"
    /\ ~split.script.raises
    /\ LET parsed == ParseSupervisorResponse(split.script.reply)
       IN  split' = SplitEnded(split,
                       IF parsed.raised THEN SplitFailure(split.user_input)
                       ELSE [pc |-> "returned", tasks |-> parsed.tasks])
    /\ UNCHANGED <<moreVars, proc, orchVars, toolLoop, fanout, construction>>

\* supervisor.process_request raises
ClassifierRaises ==
    /\ split.pc = "classifier_call"
    /\ split.script.raises
    /\ split' = SplitEnded(split, SplitFailure(split.user_input))
    /\ UNCHANGED <<moreVars, proc, orchVars, toolLoop, fanout, construction>>

\* AgentService.remove_agent for the supervisor's id
RemoveSupervisor ==
    /\ LoopFree
    /\ supervisor # NoAgent
    /\ supervisor' = NoAgent
    /\ UNCHANGED restVars
    /\ UNCHANGED <<agents, agent_availability, agent_task_assignments,
                   command_execution_enabled, call, events>>

\* route_request after the split: "if not tasks" replaces an empty list by one
\* Task for the whole message (priority 0, no agent); assign_tasks_to_agents
\* and execute_tasks_sequential then walk this list in its order
RouteTasks(tasks, user_msg, issued) ==
    IF tasks = <<>> THEN WithIds(<<SplitTask(user_msg, NoAgent, 0)>>, issued) ELSE tasks

\* execute_tasks_sequential, called by route_request, starts its next task
RouteStartsTask ==
    /\ split.pc = "returned"
    /\ LET tasks == RouteTasks(split.tasks, split.user_input, split.issued)
           k == Len(split.started) + 1
       IN  /\ k <= Len(tasks)
           /\ split' = [split EXCEPT !.started = Append(@, tasks[k])]
    /\ UNCHANGED <<moreVars, proc, orchVars, toolLoop, fanout, construction>>

NextRoute ==
    \/ AddSupervisor
    \/ RemoveSupervisor
    \/ \E u \in UserInputs, sc \in Scripts : SplitInputIntoTasks(u, sc)
    \/ SplitAgain
    \/ ClassifierReturns
    \/ ClassifierRaises
    \/ RouteStartsTask

NextSplit ==
    \/ AddSupervisor
    \/ RemoveSupervisor
    \/ \E u \in UserInputs, sc \in Scripts : SplitInputIntoTasks(u, sc)
    \/ SplitAgain
    \/ ClassifierReturns
    \/ ClassifierRaises

(***************************************************************************)
(* Properties of split_input_into_tasks.                                   *)
(***************************************************************************)
\* the reply holds JSON the parser accepts: the text between the outermost
\* brackets (or the object literals, wrapped) is JSON as it stands or once the
\* markdown fences are deleted
Parseable(text) ==
    LET c == JsonCandidate(text)
    IN  c.found /\ (IsJson(c.text) \/ IsJson(RemoveFences(c.text)))

\* the classifier of the call is broken: it raises or replies without JSON
BrokenClassifier == split.script.raises \/ ~Parseable(split.script.reply)

\* C6: split_input_into_tasks never raises; a call without supervisor, with a
\* raising classifier or with a reply without parseable JSON returns the
\* fallback sentence split of the input, and a second call with the same broken
\* classifier and input returns the same list up to the task ids
C6_SplitDegradesToFallback ==
    /\ split.pc # "raised"
    /\ (split.pc = "returned" /\ (~split.had_supervisor \/ BrokenClassifier))
         => StripIds(split.tasks) = SimpleTaskSplitting(split.user_input)
    /\ (split.pc = "returned" /\ split.calls = 2 /\ BrokenClassifier)
         => StripIds(split.tasks) = StripIds(split.first)

\* a second call with a supervisor whose reply holds brackets but no JSON
\* returned two fallback tasks
C6_Witness ==
    /\ split.pc = "returned"
    /\ split.calls = 2
    /\ split.had_supervisor
    /\ ~split.script.raises
    /\ split.script.reply # <<>>
    /\ ~Parseable(split.script.reply)
    /\ Len(split.tasks) = 2
    /\ split.tasks[1].id # split.first[1].id

(***************************************************************************)
(* The tool loop of the provider-backed agents: process_request of         *)
(* AnthropicAgent and BedrockLLMAgent without streaming.                   *)
(***************************************************************************)
\* largest configured toolMaxRecursions
MaxRecursions == 3

\* AnthropicAgent.default_max_recursions
AnthropicDefaultMaxRecursions == 5
\* BedrockLLMAgent.default_max_recursions
BedrockDefaultMaxRecursions == 20

Providers == {"anthropic", "bedrock"}

\* tool_config: unset (None or an empty dict), or a dict with the tools and,
\* when has_max, the key toolMaxRecursions
NoToolConfig == [set |-> FALSE, has_max |-> FALSE, max |-> 0]
ToolConfigs ==
    {NoToolConfig, [set |-> TRUE, has_max |-> FALSE, max |-> 0]}
    \cup {[set |-> TRUE, has_max |-> TRUE, max |-> n] : n \in 1..MaxRecursions}

\* the content parts of a model reply
TextPart(t) == [type |-> "text", text |-> t]
ToolUsePart == [type |-> "tool_use", text |-> ""]

\* replies of the scripted model
ModelReplies == {
    <<>>,
    <<TextPart("done")>>,
    <<TextPart("wait"), ToolUsePart>>,
    <<ToolUsePart>>,
    <<ToolUsePart, TextPart("then")>>
}

\* any(... content.type == "tool_use" ...) / any("toolUse" in content ...)
HasToolUse(content) == \E k \in 1..Len(content) : content[k].type = "tool_use"

IsTextPart(part) == part.type = "text"
IsToolUsePart(part) == part.type = "tool_use"

\* the texts of the text parts of a content list
TextOf(content) ==
    LET parts == SelectSeq(content, IsTextPart)
    IN  [k \in 1..Len(parts) |-> parts[k].text]

\* a message content that is None, and a content list
NoContent == [none |-> TRUE, content |-> <<>>]
Content(c) == [none |-> FALSE, content |-> c]

\* AnthropicAgent: llm_response.content or [{"text": "No final response generated"}]
AnthropicFinalContent(reply) ==
    IF reply = <<>> THEN <<TextPart("No final response generated")>> ELSE reply

\* BedrockLLMAgent.handle_single_response: the text items, then the toolUse items
BedrockContent(reply) == SelectSeq(reply, IsTextPart) \o SelectSeq(reply, IsToolUsePart)

\* BedrockLLMAgent.handle_single_response reads content[0] of the model output
BedrockReplyRaises(reply) == reply = <<>>

\* _get_max_recursions
GetMaxRecursions(provider, tool_config) ==
    IF ~tool_config.set THEN 1
    ELSE IF tool_config.has_max THEN tool_config.max
    ELSE IF provider = "anthropic" THEN AnthropicDefaultMaxRecursions
    ELSE BedrockDefaultMaxRecursions

\* the loop condition with an inclusive bound
LoopContinues_Inclusive(continue_with_tools, max_recursions) ==
    continue_with_tools /\ max_recursions >= 0

\* while continue_with_tools and max_recursions > 0
LoopContinues(continue_with_tools, max_recursions) ==
    continue_with_tools /\ max_recursions > 0

\* pc: idle | model_call | tool_call | returned | raised
\* tool_use_replies: the model replies so far that held a tool-use part;
\* streaming: the request runs _handle_streaming; reference: where
\* _handle_single_response_loop stands on the replies the streams gave;
\* finals: the final messages the stream generator gave its consumer;
\* final_is_last: the last item it gave is a final message; stream_final: the
\* content of the last final message given;
\* calls: model calls made; tool_runs: tool executions begun; conversation: the
\* kinds of the messages the loop appended; last_reply: the last reply of the
\* model; all_tool_use: every reply so far held a tool-use part; failed: what
\* raised (none | model | tool | reply); result: the returned Message content
\* no non-streaming run to compare with
NoReference ==
    [outcome |-> "none", calls |-> 0, tool_runs |-> 0, max_recursions |-> 0,
     llm_response |-> NoContent, llm_content |-> NoContent]

IdleToolLoop ==
    [pc |-> "idle", provider |-> "anthropic", tool_config |-> NoToolConfig,
     continue_with_tools |-> TRUE, max_recursions |-> 0, calls |-> 0, tool_runs |-> 0,
     llm_response |-> NoContent, llm_content |-> NoContent, conversation |-> <<>>,
     last_reply |-> <<>>, all_tool_use |-> TRUE, failed |-> "none", result |-> NoContent,
     tool_use_replies |-> 0, streaming |-> FALSE, reference |-> NoReference,
     finals |-> 0, final_is_last |-> FALSE,
     stream_final |-> NoContent]

InitToolLoop == toolLoop = IdleToolLoop

\* what _handle_single_response_loop returns: AnthropicAgent wraps llm_content
\* in a new message, BedrockLLMAgent returns llm_response
LoopResult(t) == IF t.provider = "anthropic" THEN t.llm_content ELSE t.llm_response

\* the test of the while loop for the loop state t: the next model call, or
\* the return of process_request
LoopTest(t) ==
    IF LoopContinues(t.continue_with_tools, t.max_recursions)
    THEN [t EXCEPT !.pc = "model_call", !.calls = t.calls + 1]
    ELSE [t EXCEPT !.pc = "returned", !.result = LoopResult(t)]

\* process_request up to the first model call
ProcessRequest(provider, tool_config) ==
    /\ toolLoop.pc = "idle"
    /\ toolLoop' = LoopTest([IdleToolLoop EXCEPT
                                !.provider = provider,
                                !.tool_config = tool_config,
                                !.max_recursions = GetMaxRecursions(provider, tool_config)])
    /\ UNCHANGED <<moreVars, proc, orchVars, split, fanout, construction>>

\* _handle_single_response_loop before its first model call
SingleResponseStart(max_recursions) ==
    [outcome |-> IF LoopContinues(TRUE, max_recursions) THEN "running" ELSE "returned",
     calls |-> 0, tool_runs |-> 0, max_recursions |-> max_recursions,
     llm_response |-> NoContent, llm_content |-> NoContent]

\* one turn of _handle_single_response_loop on the reply of a model call, when
\* the tool does not raise: the call, the tool execution or the final content,
\* and the loop test
SingleResponseStep(provider, st, reply) ==
    LET c == IF provider = "anthropic" THEN reply ELSE BedrockContent(reply)
        called == [st EXCEPT !.calls = @ + 1, !.max_recursions = @ - 1]
    IN  IF st.outcome # "running" THEN [st EXCEPT !.outcome = "ended_before"]
        ELSE IF provider = "bedrock" /\ BedrockReplyRaises(reply)
        THEN [called EXCEPT !.outcome = "raised"]
        ELSE IF HasToolUse(c)
        THEN [called EXCEPT !.tool_runs = @ + 1,
                            !.llm_response = Content(c),
                            !.outcome = IF LoopContinues(TRUE, st.max_recursions - 1)
                                        THEN "running" ELSE "returned"]
        ELSE [called EXCEPT !.llm_response = Content(c),
                            !.llm_content = IF provider = "anthropic"
                                            THEN Content(AnthropicFinalContent(c)) ELSE @,
                            !.outcome = "returned"]

\* the Message _handle_single_response_loop returns
SingleResponseResult(provider, st) ==
    IF provider = "anthropic" THEN st.llm_content ELSE st.llm_response

\* process_request of an agent with streaming enabled, up to the first stream
ProcessRequestStreaming(provider, tool_config) ==
    /\ toolLoop.pc = "idle"
    /\ toolLoop' = LoopTest([IdleToolLoop EXCEPT
                                !.provider = provider,
                                !.tool_config = tool_config,
                                !.streaming = TRUE,
                                !.reference = SingleResponseStart(
                                                  GetMaxRecursions(provider, tool_config)),
                                !.max_recursions = GetMaxRecursions(provider, tool_config)])
    /\ UNCHANGED <<moreVars, proc, orchVars, split, fanout, construction>>

\* the loop body after handle_single_response returned the content c
AfterReply(t, reply, c) ==
    LET seen == [t EXCEPT !.last_reply = reply,
                          !.all_tool_use = t.all_tool_use /\ HasToolUse(reply),
                          !.tool_use_replies = IF HasToolUse(reply) THEN @ + 1 ELSE @,
                          !.llm_response = Content(c)]
    IN  IF HasToolUse(c)
        THEN [seen EXCEPT !.pc = "tool_call",
                          !.tool_runs = t.tool_runs + 1,
                          !.conversation = Append(t.conversation, "assistant_tool_use")]
        ELSE LoopTest([seen EXCEPT
                          !.continue_with_tools = FALSE,
                          !.llm_content = IF t.provider = "anthropic"
                                          THEN Content(AnthropicFinalContent(c))
                                          ELSE t.llm_content,
                          !.conversation = IF t.provider = "bedrock"
                                           THEN Append(t.conversation, "assistant_final")
                                           ELSE t.conversation,
                          !.max_recursions = t.max_recursions - 1])

\* the number of token chunks of a reply: one for each text part that has text
TokenChunks(reply) ==
    LET HasText(part) == IsTextPart(part) /\ part.text # ""
    IN  Len(SelectSeq(reply, HasText))

\* AnthropicAgent._handle_streaming: the content list of the final message it
\* yields, the text of every part that has text
StreamedContent(reply) ==
    LET HasText(part) == part.text # "" IN SelectSeq(reply, HasText)

\* the body of the streaming loop after the stream of one step ended with the
\* final message of content c: AnthropicAgent yields the token chunks and
\* keeps the final message, BedrockLLMAgent yields every chunk of the stream,
\* the final message included
AfterStream(t, reply, c) ==
    LET bedrock == t.provider = "bedrock"
        seen == [t EXCEPT !.last_reply = reply,
                          !.reference = SingleResponseStep(t.provider, @, reply),
                          !.all_tool_use = t.all_tool_use /\ HasToolUse(reply),
                          !.tool_use_replies = IF HasToolUse(reply) THEN @ + 1 ELSE @,
                          !.finals = IF bedrock THEN @ + 1 ELSE @,
                          !.final_is_last = IF bedrock THEN TRUE
                                            ELSE @ /\ TokenChunks(reply) = 0,
                          !.stream_final = IF bedrock THEN Content(c) ELSE @]
    IN  IF HasToolUse(c)
        THEN [seen EXCEPT !.pc = "tool_call",
                          !.tool_runs = t.tool_runs + 1,
                          !.conversation = Append(t.conversation, "assistant_tool_use")]
        ELSE LoopTest([seen EXCEPT
                          !.continue_with_tools = FALSE,
                          !.finals = IF bedrock THEN @ ELSE @ + 1,
                          !.final_is_last = TRUE,
                          !.stream_final = IF bedrock THEN @ ELSE Content(StreamedContent(c)),
                          !.conversation = IF bedrock
                                           THEN Append(t.conversation, "assistant_final")
                                           ELSE t.conversation,
                          !.max_recursions = t.max_recursions - 1])

\* the model call returns reply
ModelReturns(reply) ==
    /\ toolLoop.pc = "model_call"
    /\ toolLoop' =
         IF toolLoop.streaming
         THEN AfterStream(toolLoop, reply,
                          IF toolLoop.provider = "anthropic" THEN reply
                          ELSE BedrockContent(reply))
         ELSE IF toolLoop.provider = "anthropic" THEN AfterReply(toolLoop, reply, reply)
         ELSE IF BedrockReplyRaises(reply)
         THEN [toolLoop EXCEPT !.pc = "raised", !.failed = "reply", !.last_reply = reply,
                               !.all_tool_use = FALSE]
         ELSE AfterReply(toolLoop, reply, BedrockContent(reply))
    /\ UNCHANGED <<moreVars, proc, orchVars, split, fanout, construction>>

\* the model call raises: handle_single_response logs and raises again
ModelRaises ==
    /\ toolLoop.pc = "model_call"
    /\ toolLoop' = [toolLoop EXCEPT !.pc = "raised", !.failed = "model"]
    /\ UNCHANGED <<moreVars, proc, orchVars, split, fanout, construction>>

\* the tool-result message is not appended
AppendToolResponse_Dropped(conversation) == conversation

\* payload_input["messages"].append(tool_response) / conversation.append(tool_response)
AppendToolResponse(conversation) == Append(conversation, "tool_result")

\* _process_tool_block returns the tool-result message
ToolReturns ==
    /\ toolLoop.pc = "tool_call"
    /\ toolLoop.tool_config.set
    /\ toolLoop' = LoopTest([toolLoop EXCEPT
                                !.conversation = AppendToolResponse(toolLoop.conversation),
                                !.max_recursions = toolLoop.max_recursions - 1])
    /\ UNCHANGED <<moreVars, proc, orchVars, split, fanout, construction>>

\* _process_tool_block raises: the handler or a tool raised, or tool_config
\* is None ("useToolHandler" in None)
ToolRaises ==
    /\ toolLoop.pc = "tool_call"
    /\ toolLoop' = [toolLoop EXCEPT !.pc = "raised", !.failed = "tool"]
    /\ UNCHANGED <<moreVars, proc, orchVars, split, fanout, construction>>

\* the caller is done with the result: the next request
NextRequest ==
    /\ toolLoop.pc \in {"returned", "raised"}
    /\ toolLoop' = IdleToolLoop
    /\ UNCHANGED <<moreVars, proc, orchVars, split, fanout, construction>>

NextToolLoop ==
    \/ \E p \in Providers, c \in ToolConfigs : ProcessRequest(p, c)
    \/ \E r \in ModelReplies : ModelReturns(r)
    \/ ModelRaises
    \/ ToolReturns
    \/ ToolRaises
    \/ NextRequest

\* requests with and without streaming
NextStreaming ==
    \/ \E p \in Providers, c \in ToolConfigs : ProcessRequest(p, c)
    \/ \E p \in Providers, c \in ToolConfigs : ProcessRequestStreaming(p, c)
    \/ \E r \in ModelReplies : ModelReturns(r)
    \/ ModelRaises
    \/ ToolReturns
    \/ ToolRaises
    \/ NextRequest

(***************************************************************************)
(* Properties of the tool loop.                                            *)
(***************************************************************************)
LoopEnded == toolLoop.pc \in {"returned", "raised"}

\* C7: with toolMaxRecursions = n >= 1 a process_request makes at most n model
\* calls; when every reply requested a tool (and no model call or tool
\* execution raised) it makes exactly n calls and returns; without tool
\* configuration it makes exactly one model call
C7_ModelCallsBounded ==
    /\ toolLoop.tool_config.has_max => toolLoop.calls <= toolLoop.tool_config.max
    /\ (LoopEnded /\ toolLoop.tool_config.has_max /\ toolLoop.all_tool_use
          /\ toolLoop.failed = "none")
         => (toolLoop.calls = toolLoop.tool_config.max /\ toolLoop.pc = "returned")
    /\ (toolLoop.pc # "idle" /\ ~toolLoop.tool_config.set) => toolLoop.calls = 1

\* a budget of more than one call was used up by a model that asked for a
\* tool every time
C7_Witness ==
    /\ toolLoop.pc = "returned"
    /\ toolLoop.tool_config.has_max
    /\ toolLoop.tool_config.max > 1
    /\ toolLoop.all_tool_use
    /\ toolLoop.calls = toolLoop.tool_config.max
    /\ toolLoop.tool_runs = toolLoop.calls

\* C8: when the loop ends, by a reply without tool-use or by the budget,
\* process_request returns a Message whose content is the text of the last
\* model reply (possibly empty) and does not raise
C8_ReturnsLastReplyText ==
    /\ toolLoop.failed # "reply"
    /\ toolLoop.pc = "returned"
         => (~toolLoop.result.none
             /\ TextOf(toolLoop.result.content) = TextOf(toolLoop.last_reply))

(***************************************************************************)
(* Delegation: SupervisorAgent.send_messages and send_message.             *)
(***************************************************************************)
\* longest message list of one dispatch
MaxMessages == 2

\* SupervisorAgent.team: agents with names of their own
Team == <<"Alpha", "Beta">>
\* a recipient that is no team member
Nobody == "Nobody"
Recipients == Range(Team) \cup {Nobody}

\* {"recipient": r, "content": ...}: the content of the j-th message is its own
DispatchMessage(r, j) == [recipient |-> r, content |-> j]
MessageLists ==
    UNION {{[j \in 1..n |-> DispatchMessage(rs[j], j)] : rs \in [1..n -> Recipients]}
           : n \in 0..MaxMessages}

\* final_response of a team member: response.content[0].get('text', '')
MemberReplies == {"", "ok"}

\* the pairs of one agent when the recipient is not compared with its name
PairsOfAgent_AnyRecipient(a, messages) ==
    [j \in 1..Len(messages) |-> [agent |-> a, msg |-> j]]

\* the (agent, message) pairs of "for message in messages if agent.name ==
\* message.get('recipient')" for one agent
PairsOfAgent(a, messages) ==
    LET all == [j \in 1..Len(messages) |-> [agent |-> a, msg |-> j]]
    IN  SelectSeq(all, LAMBDA pr : messages[pr.msg].recipient = a)

\* "for agent in self.team for message in messages if ...", from team position i
RECURSIVE MatchedPairs(_, _, _)
MatchedPairs(team, messages, i) ==
    IF i > Len(team) THEN <<>>
    ELSE PairsOfAgent(team[i], messages) \o MatchedPairs(team, messages, i + 1)

\* asyncio.create_task(asyncio.to_thread(self.send_message, agent, ...))
\* state: created | running | done | failed
\* error: what raised inside send_message, "none" when nothing did
\* history: agent_chat_history of the call; invoked: agent.process_request
\* has been called
NewCall(pr) ==
    [agent |-> pr.agent, msg |-> pr.msg, state |-> "created", reply |-> "", error |-> "none",
     history |-> <<>>, invoked |-> FALSE]

\* most dispatches of one session after the first
MaxDispatches == 1

\* agent.save_chat of the team members: Alpha keeps its chats, Beta does not
SaveChat(a) == a = "Alpha"

\* one message of the chat store
ChatMessage(role, text) == [role |-> role, text |-> text]

\* the chat store of one (user, session): the messages kept for each agent
EmptyStore == [a \in Range(Team) |-> <<>>]

\* storage.fetch_chat(user_id, session_id, agent.id) if agent.save_chat else []
FetchChat(store, a) == IF SaveChat(a) THEN store[a] ELSE <<>>

\* if agent.save_chat: storage.save_chat_messages(user_id, session_id,
\* agent.id, [user_message, assistant_message])
SaveChatMessages(store, a, content, final_response) ==
    IF SaveChat(a)
    THEN [store EXCEPT ![a] = @ \o <<ChatMessage("user", content),
                                      ChatMessage("assistant", final_response)>>]
    ELSE store

\* the awaits of send_message that can raise: storage.fetch_chat,
\* agent.process_request, storage.save_chat_messages
MemberErrors == {"fetch_chat failed", "process_request failed", "save_chat_messages failed"}

\* f"{agent.name}: {final_response}"
Segment(agent, reply) == <<agent, ": ", reply>>

\* ''.join(responses), from list position i
RECURSIVE Join(_, _)
Join(tasks, i) ==
    IF i > Len(tasks) THEN <<>>
    ELSE Segment(tasks[i].agent, tasks[i].reply) \o Join(tasks, i + 1)

NoAgentMatches == <<"No agent matches for the request:">>

\* pc: idle | gathering | returned | raised
\* tasks: the asyncio tasks in creation order; running_peak: the largest
\* number of member calls that were running at the same time
\* error: the exception send_messages raised, "none" when it did not raise
\* store: the chat store of the session; dispatches: the dispatches that
\* followed the first
IdleFanout == [pc |-> "idle", messages |-> <<>>, tasks |-> <<>>, result |-> <<>>,
               running_peak |-> 0, error |-> "none", store |-> EmptyStore,
               dispatches |-> 0]

InitFanout == fanout = IdleFanout

RunningCount(tasks) == Cardinality({k \in 1..Len(tasks) : tasks[k].state = "running"})

\* the worker thread of a call waits until no other call is running
ThreadMayRun_OneAtATime(tasks, k) ==
    \A j \in 1..Len(tasks) : j # k => tasks[j].state # "running"

\* asyncio.to_thread: each call gets a worker thread of the default executor,
\* whatever the other calls do
ThreadMayRun(tasks, k) == TRUE

\* SupervisorAgent.send_messages up to "await asyncio.gather(*tasks)"
SendMessages(messages) ==
    /\ fanout.pc = "idle"
    /\ LET pairs == MatchedPairs(Team, messages, 1)
       IN  fanout' =
             IF pairs = <<>>
             THEN [fanout EXCEPT !.pc = "returned", !.messages = messages,
                                 !.result = NoAgentMatches]
             ELSE [fanout EXCEPT !.pc = "gathering", !.messages = messages,
                                 !.tasks = [k \in 1..Len(pairs) |-> NewCall(pairs[k])]]
    /\ UNCHANGED <<moreVars, proc, orchVars, split, toolLoop, construction>>

\* the worker thread begins send_message for task k and fetches the chat
\* history of the agent
MemberStarts(k) ==
    /\ fanout.pc \in {"gathering", "raised"}
    /\ k \in 1..Len(fanout.tasks)
    /\ fanout.tasks[k].state = "created"
    /\ ThreadMayRun(fanout.tasks, k)
    /\ LET tasks == [fanout.tasks EXCEPT
                        ![k].state = "running",
                        ![k].history = FetchChat(fanout.store, fanout.tasks[k].agent)]
       IN  fanout' = [fanout EXCEPT
                         !.tasks = tasks,
                         !.running_peak = IF RunningCount(tasks) > fanout.running_peak
                                          THEN RunningCount(tasks)
                                          ELSE fanout.running_peak]
    /\ UNCHANGED <<moreVars, proc, orchVars, split, toolLoop, construction>>

\* send_message calls agent.process_request(content, user_id, session_id,
\* agent_chat_history, additional_params) for task k
MemberInvoked(k) ==
    /\ k \in 1..Len(fanout.tasks)
    /\ fanout.tasks[k].state = "running"
    /\ ~fanout.tasks[k].invoked
    /\ fanout' = [fanout EXCEPT !.tasks[k].invoked = TRUE]
    /\ UNCHANGED <<moreVars, proc, orchVars, split, toolLoop, construction>>

\* the agent replied: send_message saves the two messages and returns
\* "<agent name>: <reply>" for task k
MemberReturns(k, reply) ==
    /\ k \in 1..Len(fanout.tasks)
    /\ fanout.tasks[k].state = "running"
    /\ fanout.tasks[k].invoked
    /\ fanout' = [fanout EXCEPT
                     !.tasks[k].state = "done", !.tasks[k].reply = reply,
                     !.store = SaveChatMessages(@, fanout.tasks[k].agent,
                                                fanout.messages[fanout.tasks[k].msg].content,
                                                reply)]
    /\ UNCHANGED <<moreVars, proc, orchVars, split, toolLoop, construction>>

\* send_message raises for task k: the member's process_request or a chat
\* store access raised; "except Exception as e: raise e"
MemberRaises(k, error) ==
    /\ k \in 1..Len(fanout.tasks)
    /\ fanout.tasks[k].state = "running"
    /\ fanout' = [fanout EXCEPT !.tasks[k].state = "failed", !.tasks[k].error = error]
    /\ UNCHANGED <<moreVars, proc, orchVars, split, toolLoop, construction>>

\* asyncio.gather with return_exceptions: it ends when every task has ended
GatherDone_IgnoringFailures(tasks) ==
    \A k \in 1..Len(tasks) : tasks[k].state \in {"done", "failed"}

\* asyncio.gather(*tasks) ends with the list of results: every task returned
GatherDone(tasks) == \A k \in 1..Len(tasks) : tasks[k].state = "done"

\* asyncio.gather returns the results in task order: return ''.join(responses)
GatherReturns ==
    /\ fanout.pc = "gathering"
    /\ GatherDone(fanout.tasks)
    /\ fanout' = [fanout EXCEPT !.pc = "returned", !.result = Join(fanout.tasks, 1)]
    /\ UNCHANGED <<moreVars, proc, orchVars, split, toolLoop, construction>>

\* asyncio.gather raises the exception of a failed task at once; send_messages
\* logs it and raises it again
GatherRaises ==
    /\ fanout.pc = "gathering"
    /\ \E k \in 1..Len(fanout.tasks) :
          /\ fanout.tasks[k].state = "failed"
          /\ fanout' = [fanout EXCEPT !.pc = "raised", !.error = fanout.tasks[k].error]
    /\ UNCHANGED <<moreVars, proc, orchVars, split, toolLoop, construction>>

\* the lead agent calls send_messages again in the same session, after every
\* thread of the dispatch before has ended
SendMessagesAgain ==
    /\ fanout.pc \in {"returned", "raised"}
    /\ fanout.dispatches < MaxDispatches
    /\ \A k \in 1..Len(fanout.tasks) : fanout.tasks[k].state \in {"done", "failed"}
    /\ fanout' = [IdleFanout EXCEPT !.store = fanout.store,
                                    !.dispatches = fanout.dispatches + 1]
    /\ UNCHANGED <<moreVars, proc, orchVars, split, toolLoop, construction>>

\* several dispatches of one session
NextChat ==
    \/ \E ms \in MessageLists : SendMessages(ms)
    \/ \E k \in 1..MaxMessages : MemberStarts(k)
    \/ \E k \in 1..MaxMessages : MemberInvoked(k)
    \/ \E k \in 1..MaxMessages, r \in MemberReplies : MemberReturns(k, r)
    \/ \E k \in 1..MaxMessages, e \in MemberErrors : MemberRaises(k, e)
    \/ GatherReturns
    \/ GatherRaises
    \/ SendMessagesAgain

NextFanout ==
    \/ \E ms \in MessageLists : SendMessages(ms)
    \/ \E k \in 1..MaxMessages : MemberStarts(k)
    \/ \E k \in 1..MaxMessages : MemberInvoked(k)
    \/ \E k \in 1..MaxMessages, r \in MemberReplies : MemberReturns(k, r)
    \/ \E k \in 1..MaxMessages, e \in MemberErrors : MemberRaises(k, e)
    \/ GatherReturns
    \/ GatherRaises

(***************************************************************************)
(* Properties of send_messages.                                            *)
(***************************************************************************)
\* the messages of the dispatch that name a team member
MatchedMessages ==
    {j \in 1..Len(fanout.messages) : fanout.messages[j].recipient \in Range(Team)}

\* the messages name distinct team members
DistinctRecipients ==
    \A i, j \in MatchedMessages :
        i # j => fanout.messages[i].recipient # fanout.messages[j].recipient

\* the tasks created for message j
TasksOf(j) == {k \in 1..Len(fanout.tasks) : fanout.tasks[k].msg = j}

\* the "<agent name>: <reply>" segments of the returned string
SegmentsOfResult ==
    [n \in 1..(Len(fanout.result) \div Len(Segment("", ""))) |->
        SubSeq(fanout.result, Len(Segment("", "")) * (n - 1) + 1, Len(Segment("", "")) * n)]

\* C9: for messages that name distinct team members, while send_messages waits
\* every matched message has its call and no call has to wait for another one;
\* send_messages returns only when all calls are done, and the returned string
\* has exactly one "<agent name>: <reply>" segment per matched message
C9_FanOutFanIn ==
    DistinctRecipients =>
        /\ fanout.pc = "gathering" =>
             /\ \A j \in MatchedMessages : Cardinality(TasksOf(j)) = 1
             /\ \A k \in 1..Len(fanout.tasks) :
                    fanout.tasks[k].state = "created" => ENABLED MemberStarts(k)
        /\ (fanout.pc = "returned" /\ MatchedMessages # {}) =>
             /\ \A k \in 1..Len(fanout.tasks) : fanout.tasks[k].state = "done"
             /\ Len(SegmentsOfResult) = Cardinality(MatchedMessages)
             /\ \A j \in MatchedMessages :
                    Cardinality({n \in 1..Len(SegmentsOfResult) :
                        \E k \in TasksOf(j) :
                            SegmentsOfResult[n] =
                                Segment(fanout.messages[j].recipient, fanout.tasks[k].reply)}) = 1

\* a dispatch to both members returned after their calls ran at the same time
C9_Witness ==
    /\ fanout.pc = "returned"
    /\ DistinctRecipients
    /\ Cardinality(MatchedMessages) = Len(Team)
    /\ fanout.running_peak = Len(Team)
    /\ Len(SegmentsOfResult) = Len(Team)

\* C11: when a team member's process_request or chat store access raises
\* during a dispatch, send_messages raises that exception; it never returns
\* a concatenation of the other members' replies
C11_MemberFailurePropagates ==
    /\ fanout.pc = "returned" =>
          \A k \in 1..Len(fanout.tasks) : fanout.tasks[k].state # "failed"
    /\ fanout.pc = "raised" =>
          /\ fanout.result = <<>>
          /\ \E k \in 1..Len(fanout.tasks) :
                 fanout.tasks[k].state = "failed" /\ fanout.error = fanout.tasks[k].error

\* send_messages raised the chat store's exception of one member after the
\* other member had replied
C11_Witness ==
    /\ fanout.pc = "raised"
    /\ fanout.error = "save_chat_messages failed"
    /\ \E k \in 1..Len(fanout.tasks) :
           fanout.tasks[k].state = "done" /\ fanout.tasks[k].reply = "ok"

(***************************************************************************)
(* Construction of a SupervisorAgent: SupervisorAgentOptions.validate,     *)
(* SupervisorAgent.__init__ and _configure_supervisor_tools.               *)
(***************************************************************************)
\* SupervisorAgent.DEFAULT_TOOL_MAX_RECURSIONS
DEFAULT_TOOL_MAX_RECURSIONS == 40

\* a tool_config that is unset (None), and the ones a caller can have set
NoConfig == [owner |-> "none", tools |-> "none", toolMaxRecursions |-> 0]
CallerConfigs ==
    {[owner |-> "caller", tools |-> "caller_tools", toolMaxRecursions |-> n]
        : n \in 1..MaxRecursions}

\* the dict _configure_supervisor_tools builds: the send_messages tool, with
\* the extra tools when given
SupervisorConfig(extra_tools) ==
    [owner |-> "supervisor",
     tools |-> IF extra_tools = "none" THEN "send_messages" ELSE "send_messages+extra",
     toolMaxRecursions |-> DEFAULT_TOOL_MAX_RECURSIONS]

\* bool(tool_config)
Truthy(config) == config.owner # "none"

\* options.lead_agent: is_agent: an Agent instance; has_methods: it has
\* set_system_prompt, process_request and is_streaming_enabled; has_tool_attr,
\* has_tool_setter: hasattr of "tool_config" and of "set_tool_config"
Leads ==
    [is_agent : BOOLEAN, has_methods : BOOLEAN, has_tool_attr : BOOLEAN,
     has_tool_setter : BOOLEAN, tool_config : {NoConfig}]

\* options.extra_tools: None, an AgentTools, a list of AgentTool, or neither
ExtraTools == {"none", "agent_tools", "tool_list", "invalid"}

NoLead == [is_agent |-> FALSE, has_methods |-> FALSE, has_tool_attr |-> FALSE,
           has_tool_setter |-> FALSE, tool_config |-> NoConfig]

\* pc: no_lead | lead_ready | constructed | failed
\* lead: the lead agent object; given: its tool_config when SupervisorAgent
\* was called; error: the exception of the call
IdleConstruction == [pc |-> "no_lead", lead |-> NoLead, given |-> NoConfig,
                     extra_tools |-> "none", error |-> "none"]

InitConstruction == construction = IdleConstruction

\* validate, the body of the try statement: the exception it raises
\*   if getattr(self.lead_agent, "tool_config"): raise ValueError(...)
ToolConfigCheck(lead) == IF Truthy(lead.tool_config) THEN "ValueError" ELSE "none"

\* subclasses of Exception
Exceptions == {"ValueError", "TypeError", "AttributeError"}

\* "except Exception: pass": what leaves the try statement when its body
\* raised the exception raised
ExceptExceptionPass(raised) == IF raised \in Exceptions THEN "none" ELSE raised

\* SupervisorAgentOptions.validate: the exception it raises, "none" when valid
Validate(lead, extra_tools) ==
    IF ~lead.is_agent THEN "TypeError"
    ELSE IF ~lead.has_methods THEN "TypeError"
    ELSE IF ~(lead.has_tool_attr \/ lead.has_tool_setter) THEN "TypeError"
    ELSE IF lead.has_tool_attr /\ ExceptExceptionPass(ToolConfigCheck(lead)) # "none"
         THEN ExceptExceptionPass(ToolConfigCheck(lead))
    ELSE IF extra_tools = "invalid" THEN "ValueError"
    ELSE "none"

\* _configure_supervisor_tools, the tool wiring: set_tool_config(...) when the
\* lead has it, setattr(lead, "tool_config", {...}) otherwise
ConfigureSupervisorTools(lead, extra_tools) ==
    [lead EXCEPT !.tool_config = SupervisorConfig(extra_tools), !.has_tool_attr = TRUE]

\* the caller creates the lead agent
MakeLead(lead) ==
    /\ construction.pc = "no_lead"
    /\ construction' = [construction EXCEPT !.pc = "lead_ready", !.lead = lead]
    /\ UNCHANGED <<moreVars, proc, orchVars, split, toolLoop, fanout>>

\* the caller gives the lead a tool configuration of its own
CallerSetsToolConfig(config) ==
    /\ construction.pc = "lead_ready"
    /\ construction.lead.has_tool_attr
    /\ ~Truthy(construction.lead.tool_config)
    /\ construction' = [construction EXCEPT !.lead.tool_config = config]
    /\ UNCHANGED <<moreVars, proc, orchVars, split, toolLoop, fanout>>

\* SupervisorAgent(options)
SupervisorAgentInit(extra_tools) ==
    /\ construction.pc = "lead_ready"
    /\ LET lead == construction.lead
           error == Validate(lead, extra_tools)
       IN  construction' =
             IF error # "none"
             THEN [construction EXCEPT !.pc = "failed", !.error = error,
                                       !.given = lead.tool_config,
                                       !.extra_tools = extra_tools]
             ELSE [construction EXCEPT !.pc = "constructed",
                                       !.given = lead.tool_config,
                                       !.extra_tools = extra_tools,
                                       !.lead = ConfigureSupervisorTools(lead, extra_tools)]
    /\ UNCHANGED <<moreVars, proc, orchVars, split, toolLoop, fanout>>

NextConstruction ==
    \/ \E l \in Leads : MakeLead(l)
    \/ \E c \in CallerConfigs : CallerSetsToolConfig(c)
    \/ \E x \in ExtraTools : SupervisorAgentInit(x)

(***************************************************************************)
(* Properties of the construction.                                         *)
(***************************************************************************)
\* C10: SupervisorAgent(options) for a lead whose tool_config is already set
\* fails with an error, and the lead keeps the tool configuration it had
C10_SetToolConfigRejected ==
    (construction.pc \in {"constructed", "failed"} /\ Truthy(construction.given)) =>
        /\ construction.pc = "failed"
        /\ construction.lead.tool_config = construction.given

(***************************************************************************)
(* Command execution: AgentTeam.execute_command.                           *)
(***************************************************************************)
\* "Command execution is disabled"
DisabledError == <<
    "C", "o", "m", "m", "a", "n", "d", " ", "e", "x", "e", "c", "u", "t",
    "i", "o", "n", " ", "i", "s", " ", "d", "i", "s", "a", "b", "l", "e",
    "d" >>

\* "Command timed out after "
TimedOutPrefix == <<
    "C", "o", "m", "m", "a", "n", "d", " ", "t", "i", "m", "e", "d", " ",
    "o", "u", "t", " ", "a", "f", "t", "e", "r", " " >>

\* " seconds"
SecondsSuffix == <<" ", "s", "e", "c", "o", "n", "d", "s">>

\* "Failed to execute command: "
FailedPrefix == <<
    "F", "a", "i", "l", "e", "d", " ", "t", "o", " ", "e", "x", "e", "c",
    "u", "t", "e", " ", "c", "o", "m", "m", "a", "n", "d", ":", " " >>

\* words of the error texts, in lower case
WordTimedOut == <<"t", "i", "m", "e", "d", " ", "o", "u", "t">>
WordDisabled == <<"d", "i", "s", "a", "b", "l", "e", "d">>

\* the timeout argument, as the text str() gives for it
Timeouts == {<<"1">>, <<"3", "0">>}

\* the commands the model draws from: a program that exists, one with a
\* quoted argument, an unclosed quotation, a program that does not exist,
\* blanks only
CmdLs == <<"l", "s">>
CmdQuoted == <<"l", "s", " ", "'", "a", " ", "b", "'">>
CmdUnclosed == <<"l", "s", " ", "'", "a">>
CmdMissing == <<"n", "o">>
CmdBlank == <<" ">>
Commands == {CmdLs, CmdQuoted, CmdUnclosed, CmdMissing, CmdBlank}

\* the programs create_subprocess_exec finds
Programs == {CmdLs}

\* shlex.split, from position i on: word is the word being read (started
\* tells whether one is), quoted whether a quotation is open
RECURSIVE ShlexScan(_, _, _, _, _)
ShlexScan(s, i, word, started, quoted) ==
    IF i > Len(s)
    THEN IF quoted THEN [raised |-> TRUE, parts |-> <<>>]
         ELSE [raised |-> FALSE, parts |-> IF started THEN <<word>> ELSE <<>>]
    ELSE IF s[i] = "'" THEN ShlexScan(s, i + 1, word, TRUE, ~quoted)
    ELSE IF IsSpace(s[i]) /\ ~quoted
    THEN LET rest == ShlexScan(s, i + 1, <<>>, FALSE, FALSE)
         IN  IF started THEN [raised |-> rest.raised,
                              parts |-> IF rest.raised THEN <<>> ELSE <<word>> \o rest.parts]
             ELSE rest
    ELSE ShlexScan(s, i + 1, Append(word, s[i]), TRUE, quoted)

\* shlex.split(command): raised is the ValueError of an unclosed quotation
ShlexSplit(command) == ShlexScan(command, 1, <<>>, FALSE, FALSE)

\* str(e) of what the try block raises before a process exists
NoClosingQuotation == <<"q", "u", "o", "t", "e">>
MissingProgram == <<"p", "r", "o", "g", "r", "a", "m">>
NoSuchFile == <<"n", "o", " ", "f", "i", "l", "e">>

\* the result dict of a refused call
DisabledResult ==
    [success |-> FALSE, error |-> DisabledError, stdout |-> "", stderr |-> "",
     return_code |-> -1]

\* the result dict of the "except asyncio.TimeoutError" block
TimeoutResult(command, timeout) ==
    [success |-> FALSE, error |-> TimedOutPrefix \o timeout \o SecondsSuffix,
     stdout |-> "", stderr |-> "", return_code |-> -1, command |-> command]

\* the result dict after communicate() returned
FinishedResult(command, stdout, stderr, returncode) ==
    [success |-> (returncode = 0), stdout |-> stdout, stderr |-> stderr,
     return_code |-> returncode, command |-> command]

\* "except Exception" of execute_command, with the exception propagated
CommandFailure_Propagated(command, text) ==
    [pc |-> "raised", result |-> DisabledResult, events |-> <<>>]

\* "except Exception as e" of execute_command: a result dict and an event
CommandFailure(command, text) ==
    [pc |-> "returned",
     result |-> [success |-> FALSE, error |-> FailedPrefix \o text, stdout |-> "",
                 stderr |-> "", return_code |-> -1, command |-> command],
     events |-> <<"error">>]

\* "if not self.command_execution_enabled" with the flag ignored
Refuses_Never(enabled) == FALSE

\* if not self.command_execution_enabled
Refuses(enabled) == ~enabled

\* "await process.wait()" left out: the handler goes on at once
Reaped_NoWait(child) == TRUE

\* await process.wait() returns: the child has terminated
Reaped(child) == child # "running"

\* pc: idle | spawning | waiting | reaping | returned | raised
\* enabled: the flag when the call began; child: none | running | exited |
\* killed; spawned: processes the call created; kill_sent: process.kill() was
\* called; timed_out: wait_for raised TimeoutError; completed: communicate()
\* returned; events: levels of the terminal_output events of the call;
\* refused_before: the call before was refused by the flag
IdleProc ==
    [pc |-> "idle", command |-> <<>>, timeout |-> <<"1">>, parts |-> <<>>, enabled |-> TRUE,
     child |-> "none", returncode |-> 0, stdout |-> "", stderr |-> "", spawned |-> 0,
     kill_sent |-> FALSE, timed_out |-> FALSE, completed |-> FALSE, events |-> <<>>,
     result |-> DisabledResult, refused_before |-> FALSE]

InitProc == proc = IdleProc

\* the call ends as end (pc, result, events to add)
ProcEnded(p, end) ==
    [p EXCEPT !.pc = end.pc, !.result = end.result, !.events = p.events \o end.events]

\* execute_command up to "await asyncio.create_subprocess_exec"
ExecuteCommand(command, timeout) ==
    /\ proc.pc = "idle"
    /\ LET p == [proc EXCEPT !.command = command, !.timeout = timeout,
                             !.enabled = command_execution_enabled]
           split_ == ShlexSplit(command)
       IN  proc' =
             IF Refuses(command_execution_enabled)
             THEN [p EXCEPT !.pc = "returned", !.result = DisabledResult]
             ELSE IF split_.raised
             THEN ProcEnded(p, CommandFailure(command, NoClosingQuotation))
             ELSE IF split_.parts = <<>>
             THEN ProcEnded([p EXCEPT !.events = <<"command">>],
                            CommandFailure(command, MissingProgram))
             ELSE [p EXCEPT !.pc = "spawning", !.parts = split_.parts,
                            !.events = <<"command">>]
    /\ UNCHANGED <<moreVars, orchVars, split, toolLoop, fanout, construction>>

\* create_subprocess_exec returns the process, or raises FileNotFoundError
Spawn ==
    /\ proc.pc = "spawning"
    /\ proc' =
         IF proc.parts[1] \in Programs
         THEN [proc EXCEPT !.pc = "waiting", !.child = "running", !.spawned = proc.spawned + 1]
         ELSE ProcEnded(proc, CommandFailure(proc.command, NoSuchFile))
    /\ UNCHANGED <<moreVars, orchVars, split, toolLoop, fanout, construction>>

\* the child process exits by itself
ChildExits(returncode, stdout, stderr) ==
    /\ proc.child = "running"
    /\ ~proc.kill_sent
    /\ proc' = [proc EXCEPT !.child = "exited", !.returncode = returncode,
                            !.stdout = stdout, !.stderr = stderr]
    /\ UNCHANGED <<moreVars, orchVars, split, toolLoop, fanout, construction>>

\* the terminal_output events after communicate() returned
OutputEvents(stdout, stderr) ==
    (IF stdout # "" THEN <<"stdout">> ELSE <<>>)
    \o (IF stderr # "" THEN <<"stderr">> ELSE <<>>)
    \o <<"result">>

\* wait_for(process.communicate(), timeout) returns within the timeout
CommunicateReturns ==
    /\ proc.pc = "waiting"
    /\ proc.child = "exited"
    /\ proc' = ProcEnded([proc EXCEPT !.completed = TRUE],
                  [pc |-> "returned",
                   result |-> FinishedResult(proc.command, proc.stdout, proc.stderr,
                                             proc.returncode),
                   events |-> OutputEvents(proc.stdout, proc.stderr)])
    /\ UNCHANGED <<moreVars, orchVars, split, toolLoop, fanout, construction>>

\* wait_for raises TimeoutError: process.kill(), then "await process.wait()"
TimeoutFires ==
    /\ proc.pc = "waiting"
    /\ proc' = [proc EXCEPT !.pc = "reaping", !.timed_out = TRUE, !.kill_sent = TRUE]
    /\ UNCHANGED <<moreVars, orchVars, split, toolLoop, fanout, construction>>

\* the SIGKILL reaches the child
ChildDies ==
    /\ proc.child = "running"
    /\ proc.kill_sent
    /\ proc' = [proc EXCEPT !.child = "killed", !.returncode = -9]
    /\ UNCHANGED <<moreVars, orchVars, split, toolLoop, fanout, construction>>

\* process.wait() returns; the timeout result is built
WaitReturns ==
    /\ proc.pc = "reaping"
    /\ Reaped(proc.child)
    /\ proc' = ProcEnded(proc, [pc |-> "returned",
                                result |-> TimeoutResult(proc.command, proc.timeout),
                                events |-> <<"error">>])
    /\ UNCHANGED <<moreVars, orchVars, split, toolLoop, fanout, construction>>

\* the caller has the result: the next call
NextCommand ==
    /\ proc.pc \in {"returned", "raised"}
    /\ proc.child # "running"
    /\ proc' = [IdleProc EXCEPT !.refused_before = ~proc.enabled]
    /\ UNCHANGED <<moreVars, orchVars, split, toolLoop, fanout, construction>>

ExitCodes == {0, 1}
Outputs == {"", "hi"}

NextProc ==
    \/ \E b \in BOOLEAN : EnableCommandExecution(b)
    \/ \E c \in Commands, t \in Timeouts : ExecuteCommand(c, t)
    \/ Spawn
    \/ \E rc \in ExitCodes, out \in Outputs, err \in Outputs : ChildExits(rc, out, err)
    \/ CommunicateReturns
    \/ TimeoutFires
    \/ ChildDies
    \/ WaitReturns
    \/ NextCommand

(***************************************************************************)
(* Properties of execute_command.                                          *)
(***************************************************************************)
\* the keys every result dict has
ResultKeys == {"success", "stdout", "stderr", "return_code"}

C13_DisabledShortCircuits ==
    /\ (proc.pc # "idle" /\ ~proc.enabled) =>
          /\ proc.pc = "returned"
          /\ proc.result.success = FALSE
          /\ Contains(Lower(proc.result.error), WordDisabled)
          /\ proc.spawned = 0
          /\ proc.child = "none"
          /\ proc.events = <<>>
    /\ (proc.pc = "returned" /\ proc.enabled /\ "error" \in DOMAIN proc.result) =>
          ~Contains(Lower(proc.result.error), WordDisabled)
    /\ (proc.pc = "waiting" /\ proc.refused_before) => proc.enabled

\* after a refused call and enable_command_execution(True), a command ran to
\* its end
C13_Witness ==
    /\ proc.refused_before
    /\ proc.pc = "returned"
    /\ proc.enabled
    /\ proc.result.success
    /\ proc.spawned = 1

\* C14: execute_command never raises; every result has success, stdout,
\* stderr and return_code, and success is true exactly when the process ran
\* to completion with exit code 0
C14_StructuredResult ==
    /\ proc.pc # "raised"
    /\ proc.pc = "returned" =>
          /\ ResultKeys \subseteq DOMAIN proc.result
          /\ proc.result.success <=>
                (proc.completed /\ proc.child = "exited" /\ proc.returncode = 0)

\* a command that could not be tokenized was reported as a result
C14_Witness ==
    /\ proc.pc = "returned"
    /\ proc.command = CmdUnclosed
    /\ ~proc.result.success
    /\ Contains(proc.result.error, NoClosingQuotation)
    /\ proc.spawned = 0

(***************************************************************************)
(* Task assignment: AgentTeam.assign_tasks_to_agents and                   *)
(* AgentTeam._find_best_agent_for_task.                                    *)
(***************************************************************************)
MaxAssign == 2

CoderName == "Coder"

\* the agents the assignment runs use
AssignPool == AgentPool \cup {CoderName}

\* agent.name as text
NameText(n) ==
    CASE n = "Researcher" -> <<"R", "e", "s", "e", "a", "r", "c", "h", "e", "r">>
      [] n = "CommandExecutor" ->
             <<"C", "o", "m", "m", "a", "n", "d", "E", "x", "e", "c", "u", "t", "o", "r">>
      [] n = CoderName -> <<"C", "o", "d", "e", "r">>
      [] n = SupervisorName ->
             <<"S", "u", "p", "e", "r", "v", "i", "s", "o", "r">>
      [] OTHER -> <<"G", "h", "o", "s", "t">>

KwResearch == <<"r", "e", "s", "e", "a", "r", "c", "h">>
KwAnalyze == <<"a", "n", "a", "l", "y", "z", "e">>
KwCoder == <<"c", "o", "d", "e", "r">>
KwCode == <<"c", "o", "d", "e">>
KwProgram == <<"p", "r", "o", "g", "r", "a", "m">>
KwDevelop == <<"d", "e", "v", "e", "l", "o", "p">>
KwWrite == <<"w", "r", "i", "t", "e">>
KwRun == <<"r", "u", "n">>
KwExecute == <<"e", "x", "e", "c", "u", "t", "e">>

CodingKeywords == {KwCode, KwProgram, KwDevelop, KwWrite}
CommandKeywords == {KwRun, KwExecute, KwCommand}

\* any(keyword in task_desc_lower for keyword in keywords)
AnyIn(keywords, text) == \E kw \in keywords : Contains(text, kw)

\* the chain without its command branch
KeywordMatch_NoCommandRule(description, n) ==
    LET task_desc_lower == Lower(description)
        agent_name_lower == Lower(NameText(n))
    IN  \/ Contains(task_desc_lower, KwResearch) /\ Contains(agent_name_lower, KwResearch)
        \/ AnyIn(CodingKeywords, task_desc_lower) /\ Contains(agent_name_lower, KwCoder)
        \/ Contains(task_desc_lower, KwAnalyze) /\ Contains(agent_name_lower, KwResearch)

\* the if/elif chain of _find_best_agent_for_task for one agent: every branch
\* returns the agent
KeywordMatch(description, n) ==
    LET task_desc_lower == Lower(description)
        agent_name_lower == Lower(NameText(n))
    IN  \/ Contains(task_desc_lower, KwResearch) /\ Contains(agent_name_lower, KwResearch)
        \/ AnyIn(CodingKeywords, task_desc_lower) /\ Contains(agent_name_lower, KwCoder)
        \/ AnyIn(CommandKeywords, task_desc_lower) /\ Contains(agent_name_lower, KwCommand)
        \/ Contains(task_desc_lower, KwAnalyze) /\ Contains(agent_name_lower, KwResearch)

\* self.agent_availability.get(agent.name, True)
Available(availability, n) ==
    IF n \in DOMAIN availability THEN availability[n] ELSE TRUE

\* the first element of the list that satisfies the test, or NoAgent
FirstThat(registry, Test(_)) ==
    IF \E k \in 1..Len(registry) : Test(registry[k])
    THEN registry[CHOOSE k \in 1..Len(registry) :
                      /\ Test(registry[k])
                      /\ \A j \in 1..(k - 1) : ~Test(registry[j])]
    ELSE NoAgent

\* _find_best_agent_for_task: the first available agent with a keyword match,
\* else the first available agent, else None
FindBestAgentForTask(registry, availability, description) ==
    LET Matches(n) == Available(availability, n) /\ KeywordMatch(description, n)
        Free(n) == Available(availability, n)
        matched == FirstThat(registry, Matches)
    IN  IF matched # NoAgent THEN matched ELSE FirstThat(registry, Free)

\* if task.assigned_agent: None and the empty string are falsy
AgentIsSet(a) == a \notin {NoAgent, ""}

DescWrite == <<"w", "r", "i", "t", "e">>
DescAnalyzeRun == <<"a", "n", "a", "l", "y", "z", "e", " ", "r", "u", "n">>

\* the descriptions and the suggested agents of the tasks handed to the call
AssignDescriptions == {DescPlain, DescRun, DescWrite, DescAnalyzeRun}
SuggestedAgents == {NoAgent, "", "CommandExecutor", SupervisorName, GhostName}

AssignSpec(d, a) == [description |-> d, assigned_agent |-> a]

AssignSpecs ==
    {AssignSpec(DescPlain, a) : a \in SuggestedAgents}
        \cup {AssignSpec(d, NoAgent) : d \in AssignDescriptions}

AssignLists ==
    UNION {[1..n -> AssignSpecs] : n \in 0..MaxAssign}

\* one progress_callback event of assign_tasks_to_agents
AssignEvent(type, id, agent) == [type |-> type, task_id |-> id, agent |-> agent]

\* pc: idle | returned; tasks: the Task objects after the loop; suggested: the
\* assigned_agent each task came in with; events: the progress events in order
IdleAssign == [pc |-> "idle", tasks |-> <<>>, suggested |-> <<>>, events |-> <<>>]

InitAssign == assign = IdleAssign

\* the test of the suggested name: a key of agent_task_assignments
KnownAgent(assignments, registry, a) == a \in DOMAIN assignments

\* one pass of the loop body for the task t: the task, the assignments and the
\* events after it
AssignOne(st, t) ==
    LET best == FindBestAgentForTask(agents, agent_availability, t.description)
        Add(n) == [st.assignments EXCEPT ![n] = @ \cup {t.id}]
    IN  IF AgentIsSet(t.assigned_agent)
        THEN IF KnownAgent(st.assignments, agents, t.assigned_agent)
             THEN [tasks |-> Append(st.tasks, t),
                   assignments |-> Add(t.assigned_agent),
                   events |-> Append(st.events,
                                     AssignEvent("task_assigned", t.id, t.assigned_agent))]
             ELSE IF best # NoAgent
                  THEN [tasks |-> Append(st.tasks, [t EXCEPT !.assigned_agent = best]),
                        assignments |-> Add(best),
                        events |-> Append(st.events,
                                          AssignEvent("task_reassigned", t.id, best))]
                  ELSE [st EXCEPT !.tasks = Append(st.tasks, t)]
        ELSE IF best # NoAgent
             THEN [tasks |-> Append(st.tasks, [t EXCEPT !.assigned_agent = best]),
                   assignments |-> Add(best),
                   events |-> Append(st.events, AssignEvent("task_assigned", t.id, best))]
             ELSE [tasks |-> Append(st.tasks, t),
                   assignments |-> st.assignments,
                   events |-> Append(st.events,
                                     AssignEvent("task_assignment_failed", t.id, NoAgent))]

RECURSIVE AssignLoop(_, _, _)
\* for task in tasks, from the k-th task on
AssignLoop(st, tasks, k) ==
    IF k > Len(tasks) THEN st
    ELSE AssignLoop(AssignOne(st, tasks[k]), tasks, k + 1)

\* AgentTeam.assign_tasks_to_agents(tasks, progress_callback): the call has
\* no await, so the whole loop is one step
AssignTasksToAgents(list) ==
    /\ assign.pc = "idle"
    /\ LET tasks == [k \in 1..Len(list) |->
                        NewTask(TaskId(1, k), list[k].description, list[k].assigned_agent)]
           end == AssignLoop([tasks |-> <<>>, assignments |-> agent_task_assignments,
                              events |-> <<>>], tasks, 1)
       IN  /\ assign' = [pc |-> "returned", tasks |-> end.tasks,
                         suggested |-> [k \in 1..Len(list) |-> list[k].assigned_agent],
                         events |-> end.events]
           /\ agent_task_assignments' = end.assignments
    /\ UNCHANGED <<agents, supervisor, agent_availability, command_execution_enabled,
                   call, events>>
    /\ UNCHANGED <<split, toolLoop, fanout, construction, proc, report, built, sup, single, route>>

\* _execute_single_task of another request marks the agent it resolved busy
\* before the agent call
MarkBusy(n) ==
    /\ assign.pc = "idle"
    /\ n \in Range(agents)
    /\ agent_availability[n]
    /\ agent_availability' = [agent_availability EXCEPT ![n] = FALSE]
    /\ UNCHANGED restVars
    /\ UNCHANGED <<agents, supervisor, agent_task_assignments, command_execution_enabled,
                   call, events>>

\* the finally block of that _execute_single_task makes the agent available
MarkAvailable(n) ==
    /\ assign.pc = "idle"
    /\ n \in DOMAIN agent_availability
    /\ ~agent_availability[n]
    /\ agent_availability' = [agent_availability EXCEPT ![n] = TRUE]
    /\ UNCHANGED restVars
    /\ UNCHANGED <<agents, supervisor, agent_task_assignments, command_execution_enabled,
                   call, events>>

\* the registry changes before the call
NextAssign ==
    \/ \E n \in AssignPool : assign.pc = "idle" /\ AddAgent(n)
    \/ \E n \in AssignPool : assign.pc = "idle" /\ RemoveAgent(n)
    \/ assign.pc = "idle" /\ AddSupervisor
    \/ \E n \in AssignPool : MarkBusy(n)
    \/ \E n \in AssignPool : MarkAvailable(n)
    \/ \E list \in AssignLists : AssignTasksToAgents(list)


\* C15: after assign_tasks_to_agents returns, every task's assigned_agent is
\* unset or names an agent of the registry: a registered suggested name is kept,
\* any other suggested name is replaced by the heuristic's choice
C15_AssignedAgentsRegistered ==
    assign.pc = "returned" =>
        \A k \in 1..Len(assign.tasks) :
            LET a == assign.tasks[k].assigned_agent
                s == assign.suggested[k]
            IN  /\ ~AgentIsSet(a) \/ a \in Range(agents)
                /\ (AgentIsSet(s) /\ s \in Range(agents)) => a = s
                /\ (AgentIsSet(s) /\ s \notin Range(agents)) =>
                       a = FindBestAgentForTask(agents, agent_availability,
                                                assign.tasks[k].description)

\* a progress event of the given type was reported for the task
AssignReported(type, id) ==
    \E k \in 1..Len(assign.events) :
        assign.events[k].type = type /\ assign.events[k].task_id = id

\* C16: when no agent can be found for a task that came in without a suggested
\* agent or with an unknown suggested name, assign_tasks_to_agents returns, the
\* task is left unassigned and a task_assignment_failed event is reported
C16_NoAgentFoundReported ==
    assign.pc = "returned" =>
        \A k \in 1..Len(assign.tasks) :
            LET t == assign.tasks[k]
                s == assign.suggested[k]
            IN  (/\ FindBestAgentForTask(agents, agent_availability, t.description) = NoAgent
                 /\ ~AgentIsSet(s) \/ s \notin DOMAIN agent_task_assignments)
                => /\ ~AgentIsSet(t.assigned_agent)
                   /\ AssignReported("task_assignment_failed", t.id)

\* the keywords the heuristic routes to a research agent
ResearchKeywords == {KwResearch, KwAnalyze, <<"a", "n", "a", "l", "y", "s", "e">>}

\* the description has a command keyword and no research or coding keyword
CommandOnly(description) ==
    LET task_desc_lower == Lower(description)
    IN  /\ AnyIn(CommandKeywords, task_desc_lower)
        /\ ~AnyIn(ResearchKeywords, task_desc_lower)
        /\ ~AnyIn(CodingKeywords, task_desc_lower)

\* the agent's name contains "command"
CommandNamed(n) == Contains(Lower(NameText(n)), KwCommand)

\* C17: a task without an assigned agent whose description has a command
\* keyword and no research or coding keyword is assigned to the agent whose
\* name contains "command", wherever that agent stands in the registry, when
\* the agent is registered and available
C17_CommandTaskToCommandAgent ==
    assign.pc = "returned" =>
        \A k \in 1..Len(assign.tasks) :
            LET t == assign.tasks[k]
            IN  (/\ ~AgentIsSet(assign.suggested[k])
                 /\ CommandOnly(t.description)
                 /\ \E n \in Range(agents) :
                        CommandNamed(n) /\ Available(agent_availability, n))
                => /\ t.assigned_agent \in Range(agents)
                   /\ CommandNamed(t.assigned_agent)
                   /\ Available(agent_availability, t.assigned_agent)
                   /\ t.id \in agent_task_assignments[t.assigned_agent]
                   /\ AssignReported("task_assigned", t.id)

\* the command agent is the last of three registered agents and the command
\* task went to it
C17_Witness ==
    /\ assign.pc = "returned"
    /\ Len(agents) = 3
    /\ CommandNamed(agents[3])
    /\ \E k \in 1..Len(assign.tasks) :
           /\ ~AgentIsSet(assign.suggested[k])
           /\ CommandOnly(assign.tasks[k].description)
           /\ assign.tasks[k].assigned_agent = agents[3]

\* the flow f is at the end of _execute_single_task for a task whose
\* assigned_agent resolved to no agent of the registry
UnresolvedAtEnd(f) == call[f].pc = "finishing" /\ call[f].agent = NoAgent

\* C18: a task whose assigned_agent resolves to no agent of the registry fails
\* at once: its status becomes Failed, its TaskResult with success false and the
\* missing-agent error is appended to the results, and no agent call and no
\* command was started for it
C18_UnresolvedAgentFailsTask ==
    [][\A f \in Flows :
          (UnresolvedAtEnd(f) /\ call'[f] # call[f]) =>
              LET c == call[f]
                  after == call'[f]
                  t == c.tasks[c.i]
              IN  /\ after.pc = "loop"
                  /\ after.tasks[c.i].status = FAILED
                  /\ Len(after.results) = Len(c.results) + 1
                  /\ after.results[Len(after.results)].task_id = t.id
                  /\ ~after.results[Len(after.results)].success
                  /\ after.results[Len(after.results)].error = NoAgentError
                  /\ \A k \in 1..Len(events'[f]) :
                         events'[f][k].task_id = t.id =>
                             events'[f][k].type \in {"task_started", "task_failed"}]_vars

(***************************************************************************)
(* The report: AgentTeam.coordinate_responses.                             *)
(***************************************************************************)
MaxReport == 2

\* Task.description, TaskResult.output and TaskResult.error of the reported tasks
ReportDescriptions == {"say hi", "Run: ls"}
ReportOutputs == {"", "hi"}

\* one line of response_parts
Line(kind, text) == [kind |-> kind, text |-> text]

NoTasksExecuted == <<Line("text", "No tasks were executed.")>>
SuccessfulHeader == Line("header", "Successful Tasks")
FailedHeader == Line("header", "Failed Tasks")

\* [r for r in task_results if r.success]
SuccessfulResults(task_results) ==
    LET Ok(r) == r.success IN SelectSeq(task_results, Ok)

\* every result counts as failed
FailedResults_All(task_results) == task_results

\* [r for r in task_results if not r.success]
FailedResults(task_results) ==
    LET Bad(r) == ~r.success IN SelectSeq(task_results, Bad)

\* the lines of one successful result; none when self.tasks has no such task
SuccessfulEntry(tasks, r) ==
    IF r.task_id \in DOMAIN tasks
    THEN <<Line("description", tasks[r.task_id]), Line("agent", r.agent),
           Line("result", r.output), Line("blank", "")>>
    ELSE <<>>

\* the lines of one failed result; none when self.tasks has no such task
FailedEntry(tasks, r) ==
    IF r.task_id \in DOMAIN tasks
    THEN <<Line("description", tasks[r.task_id]), Line("error", r.error),
           Line("blank", "")>>
    ELSE <<>>

RECURSIVE Entries(_, _, _, _)
\* for result in results: the lines of the results from the k-th on
Entries(tasks, results, Entry(_, _), k) ==
    IF k > Len(results) THEN <<>>
    ELSE Entry(tasks, results[k]) \o Entries(tasks, results, Entry, k + 1)

\* coordinate_responses(task_results): the lines that are joined with newlines
Coordinate(tasks, task_results) ==
    LET successful_results == SuccessfulResults(task_results)
        failed_results == FailedResults(task_results)
    IN  IF task_results = <<>> THEN NoTasksExecuted
        ELSE (IF successful_results # <<>>
              THEN <<SuccessfulHeader>> \o Entries(tasks, successful_results, SuccessfulEntry, 1)
              ELSE <<>>)
             \o
             (IF failed_results # <<>>
              THEN <<FailedHeader>> \o Entries(tasks, failed_results, FailedEntry, 1)
              ELSE <<>>)

\* what execute_tasks_sequential leaves for one task: its description and the
\* TaskResult of _execute_single_task
Executed(d, success, text) == [description |-> d, success |-> success, text |-> text]

ExecutedLists ==
    UNION {[1..n -> {Executed(d, b, x) : d \in ReportDescriptions, b \in BOOLEAN,
                                         x \in ReportOutputs}] : n \in 0..MaxReport}

\* the TaskResult of the k-th task
ResultOf(k, e) ==
    [task_id |-> TaskId(1, k), success |-> e.success,
     output |-> IF e.success THEN e.text ELSE NoError,
     error |-> IF e.success THEN NoError ELSE e.text,
     agent |-> "Researcher"]

\* pc: idle | executed | reported; tasks: self.tasks, task id -> description;
\* results: the list execute_tasks_sequential returned; response: the lines of
\* the report
IdleReport == [pc |-> "idle", tasks |-> EmptyDict, results |-> <<>>, response |-> <<>>]

InitReport == report = IdleReport

\* execute_tasks_sequential(tasks) returns: every task is in self.tasks and
\* has one TaskResult
TasksExecuted(list) ==
    /\ report' = [pc |-> "executed",
                  tasks |-> [id \in DOMAIN report.tasks \cup {TaskId(1, k) : k \in 1..Len(list)} |->
                                IF \E k \in 1..Len(list) : TaskId(1, k) = id
                                THEN list[CHOOSE k \in 1..Len(list) : TaskId(1, k) = id].description
                                ELSE report.tasks[id]],
                  results |-> [k \in 1..Len(list) |-> ResultOf(k, list[k])],
                  response |-> <<>>]
    /\ UNCHANGED <<orchVars, split, toolLoop, fanout, construction, proc, assign, built, sup, single, route>>

\* AgentTeam.coordinate_responses(task_results)
CoordinateResponses ==
    /\ report.pc = "executed"
    /\ report' = [report EXCEPT !.pc = "reported",
                                !.response = Coordinate(report.tasks, report.results)]
    /\ UNCHANGED <<orchVars, split, toolLoop, fanout, construction, proc, assign, built, sup, single, route>>

NextReport ==
    \/ \E list \in ExecutedLists : TasksExecuted(list)
    \/ CoordinateResponses

\* the place of the header in the report, 0 when it is not there
HeaderAt(response, header) ==
    IF \E k \in 1..Len(response) : response[k] = header
    THEN CHOOSE k \in 1..Len(response) : response[k] = header
    ELSE 0

\* the texts of the lines of one kind between two places of the report
TextsBetween(response, from, to, kind) ==
    LET OfKind(l) == l.kind = kind
        picked == SelectSeq(SubSeq(response, from, to), OfKind)
    IN  [k \in 1..Len(picked) |-> picked[k].text]

\* the texts of the lines of one kind under the header, up to the next header
SectionTexts(response, header, kind) ==
    LET h == HeaderAt(response, header)
        later == {k \in (h + 1)..Len(response) : response[k].kind = "header"}
        end == IF later = {} THEN Len(response)
               ELSE (CHOOSE k \in later : \A j \in later : k <= j) - 1
    IN  IF h = 0 THEN <<>> ELSE TextsBetween(response, h + 1, end, kind)

\* the descriptions of the tasks of the results, in order
DescriptionsOf(results) == [k \in 1..Len(results) |-> report.tasks[results[k].task_id]]

\* C19: coordinate_responses returns the fixed text for an empty result list;
\* otherwise every TaskResult appears once, the successful ones under the
\* Successful Tasks header and the failed ones under the Failed Tasks header,
\* the successful section first and the order of the results kept in each
C19_ReportSeparatesResults ==
    report.pc = "reported" =>
        LET ok == SuccessfulResults(report.results)
            bad == LET Bad(r) == ~r.success IN SelectSeq(report.results, Bad)
            resp == report.response
        IN  IF report.results = <<>> THEN resp = NoTasksExecuted
            ELSE /\ SectionTexts(resp, SuccessfulHeader, "description") = DescriptionsOf(ok)
                 /\ SectionTexts(resp, SuccessfulHeader, "result")
                        = [k \in 1..Len(ok) |-> ok[k].output]
                 /\ SectionTexts(resp, FailedHeader, "description") = DescriptionsOf(bad)
                 /\ SectionTexts(resp, FailedHeader, "error")
                        = [k \in 1..Len(bad) |-> bad[k].error]
                 /\ Len(TextsBetween(resp, 1, Len(resp), "description")) = Len(report.results)
                 /\ Len(TextsBetween(resp, 1, Len(resp), "header")) <= 2
                 /\ (ok # <<>> /\ bad # <<>>) =>
                        /\ HeaderAt(resp, SuccessfulHeader) = 1
                        /\ HeaderAt(resp, FailedHeader) > 1

\* a report of a failed result followed by a successful one: the successful
\* one is listed first
C19_Witness ==
    /\ report.pc = "reported"
    /\ Len(report.results) = 2
    /\ ~report.results[1].success
    /\ report.results[2].success
    /\ HeaderAt(report.response, FailedHeader) > HeaderAt(report.response, SuccessfulHeader)
    /\ HeaderAt(report.response, SuccessfulHeader) = 1

\* C20: when a task completed with the output of its agent, that output is
\* part of the text the engine passes to the agent of the next task
C20_OutputReachesNextTask ==
    \A f \in Flows :
        LET c == call[f]
        IN  (/\ c.pc = "agent_call"
             /\ c.i > 1
             /\ Len(c.outputs) = c.i - 1
             /\ c.results[c.i - 1].success
             /\ c.outputs[c.i - 1] # NoOutput)
            => Contains(c.input, c.outputs[c.i - 1])

\* the events that close the block of a task
ClosesBlock(e) == e.type \in {"task_completed", "task_failed"}

\* the events _execute_single_task and execute_command report between the two
ProcessingEventTypes ==
    {"agent_processing", "command_execution", "command_error", "terminal_output"}

\* the place of the last task_started event before the place k
BlockStart(ev, k) ==
    CHOOSE s \in 1..(k - 1) :
        /\ ev[s].type = "task_started"
        /\ \A j \in (s + 1)..(k - 1) : ev[j].type # "task_started"

\* the events of one request are blocks: task_started, processing events of
\* the same task, one closing event
EventBlocks(ev) ==
    \A k \in 1..Len(ev) :
        IF ev[k].type = "task_started"
        THEN k = 1 \/ ClosesBlock(ev[k - 1])
        ELSE /\ k > 1
             /\ ~ClosesBlock(ev[k - 1])
             /\ ev[k].type \in ProcessingEventTypes \/ ClosesBlock(ev[k])
             /\ ev[k].type # "terminal_output" =>
                    ev[k].task_id = ev[BlockStart(ev, k)].task_id

\* C21: the progress events of one request come in one block for each
\* executed task, task_started, then the processing events of that task, then
\* one of task_completed and task_failed, and when the call has ended every
\* task_started has its closing event
C21_EventBlocksClosed ==
    \A f \in Flows :
        /\ EventBlocks(events[f])
        /\ call[f].pc \in {"done", "raised"} =>
               \/ events[f] = <<>>
               \/ ClosesBlock(events[f][Len(events[f])])

(***************************************************************************)
(* Several route_request calls in flight on one AgentTeam.                 *)
(***************************************************************************)
MaxConcurrent == 1

\* the task lists of the concurrent requests
ConcurrentLists ==
    UNION {[1..n -> {TaskSpec(DescPlain, "Researcher"),
                     TaskSpec(DescRun, "CommandExecutor")}] : n \in 1..MaxConcurrent}

\* the requests of the process-wide orchestrator: each is a task of the event
\* loop and runs until its next await; agents are added and none is removed
NextConcurrent ==
    \/ \E n \in AgentPool : AddAgent(n)
    \/ \E f \in Flows, list \in ConcurrentLists : ExecuteTasksSequential(f, list)
    \/ \E f \in Flows : StartTask(f)
    \/ \E f \in Flows : AgentReturns(f)
    \/ \E f \in Flows, msg \in ErrorTexts : AgentRaises(f, msg)
    \/ \E f \in Flows, ok \in BOOLEAN : CommandReturns(f, ok)
    \/ \E f \in Flows : FinishTask(f)
    \/ \E f \in Flows : ReturnResults(f)

\* the flow f is inside _execute_single_task with the agent n
Executing(f, n) ==
    /\ call[f].pc \in {"agent_call", "command_call", "finishing"}
    /\ call[f].agent = n

\* C22: with several requests in flight no agent executes more than one task
\* at a time, and the availability flag of an agent is false while a task it
\* executes is Running
C22_OneTaskPerAgent ==
    \A n \in AgentPool :
        /\ Cardinality({f \in Flows : Executing(f, n)}) <= 1
        /\ (\E f \in Flows : Executing(f, n) /\ call[f].tasks[call[f].i].status = RUNNING)
               => ~agent_availability[n]

(***************************************************************************)
(* Constructors of the other agents: AnthropicAgent, GenericLLMAgent,      *)
(* ResearcherAgent.                                                        *)
(***************************************************************************)
MaxRequests == 1

\* options.api_key: empty or None, or a key; options.client: None, an Anthropic
\* client or an AsyncAnthropic client; options.generate: None or a callable
ApiKeys == {"", "key"}
Clients == {"none", "Anthropic", "AsyncAnthropic"}
Generates == {"none", "callable"}

AgentOptions(api_key, client, streaming, generate) ==
    [api_key |-> api_key, client |-> client, streaming |-> streaming,
     generate |-> generate]

\* AnthropicAgent.__init__: the exception it raises, "none" when it returns
AnthropicInitError(options) ==
    IF options.api_key = "" /\ options.client = "none" THEN "ValueError"
    ELSE IF options.client # "none"
         THEN IF options.streaming
              THEN IF options.client # "AsyncAnthropic" THEN "ValueError" ELSE "none"
              ELSE IF options.client # "Anthropic" THEN "ValueError" ELSE "none"
         ELSE "none"

\* the constructor does not look at options.generate
GenerateCheck_Skipped(options) == "none"

\* GenericLLMAgent.__init__, ResearcherAgent.__init__:
\*   if options.generate is None: raise ValueError(...)
GenerateCheck(options) == IF options.generate = "none" THEN "ValueError" ELSE "none"

\* pc: none | constructed | failed; kind: the class; options: what the
\* constructor was given; error: the exception it raised; requests: the
\* process_request calls made on the object; lead_requests: those made on the
\* SupervisorAgent
IdleBuilt == [pc |-> "none", kind |-> "none", options |-> AgentOptions("", "none", FALSE, "none"),
              error |-> "none", requests |-> 0, lead_requests |-> 0]

InitBuilt == built = IdleBuilt

\* the constructor call ends: the caller has the object or the exception
Constructed(kind, options, error) ==
    [IdleBuilt EXCEPT !.pc = IF error = "none" THEN "constructed" ELSE "failed",
                      !.kind = kind, !.options = options, !.error = error,
                      !.lead_requests = built.lead_requests]

\* AnthropicAgent(options)
AnthropicAgentInit(api_key, client, streaming) ==
    /\ built.pc = "none"
    /\ LET options == AgentOptions(api_key, client, streaming, "none")
       IN  built' = Constructed("AnthropicAgent", options, AnthropicInitError(options))
    /\ UNCHANGED <<orchVars, split, toolLoop, fanout, construction, proc, assign, report, sup, single, route>>

\* GenericLLMAgent(options)
GenericLLMAgentInit(generate) ==
    /\ built.pc = "none"
    /\ LET options == AgentOptions("", "none", FALSE, generate)
       IN  built' = Constructed("GenericLLMAgent", options, GenerateCheck(options))
    /\ UNCHANGED <<orchVars, split, toolLoop, fanout, construction, proc, assign, report, sup, single, route>>

\* ResearcherAgent(options)
ResearcherAgentInit(generate) ==
    /\ built.pc = "none"
    /\ LET options == AgentOptions("", "none", FALSE, generate)
       IN  built' = Constructed("ResearcherAgent", options, GenerateCheck(options))
    /\ UNCHANGED <<orchVars, split, toolLoop, fanout, construction, proc, assign, report, sup, single, route>>

\* agent.process_request(...) on the object the constructor returned
AgentProcessRequest ==
    /\ built.pc = "constructed"
    /\ built.requests < MaxRequests
    /\ built' = [built EXCEPT !.requests = @ + 1]
    /\ UNCHANGED <<orchVars, split, toolLoop, fanout, construction, proc, assign, report, sup, single, route>>

\* supervisor.process_request(...) on the SupervisorAgent the constructor returned
SupervisorProcessRequest ==
    /\ construction.pc = "constructed"
    /\ built.lead_requests < MaxRequests
    /\ built' = [built EXCEPT !.lead_requests = @ + 1]
    /\ UNCHANGED <<orchVars, split, toolLoop, fanout, construction, proc, assign, report, sup, single, route>>

\* the construction of a supervisor and of one other agent
NextAgents ==
    \/ \E l \in Leads : MakeLead(l)
    \/ \E x \in ExtraTools : SupervisorAgentInit(x)
    \/ \E k \in ApiKeys, c \in Clients, b \in BOOLEAN : AnthropicAgentInit(k, c, b)
    \/ \E g \in Generates : GenericLLMAgentInit(g)
    \/ \E g \in Generates : ResearcherAgentInit(g)
    \/ AgentProcessRequest
    \/ SupervisorProcessRequest

\* the lead the SupervisorAgent was called with is missing, no Agent, or has no
\* way to take a tool configuration
BadLead(lead) ==
    \/ ~lead.is_agent
    \/ ~(lead.has_tool_attr \/ lead.has_tool_setter)

\* the options lack what the class needs: a key or a client, a generate callable
MissingCredential(kind, options) ==
    IF kind = "AnthropicAgent" THEN options.api_key = "" /\ options.client = "none"
    ELSE options.generate = "none"

Fragments(text) ==
    LET parts == SplitOn(text, ".")
        stripped == [k \in 1..Len(parts) |-> Strip(parts[k])]
        NonEmpty(x) == x # <<>>
    IN  SelectSeq(stripped, NonEmpty)

\* C24: the fallback splitter returns one unassigned Pending task for each
\* non-empty fragment between dots, in text order, and the priority of each
\* task is its index in the returned list, 0, 1, 2, ..., also for inputs with
\* empty fragments
C24_FallbackPriorityIsIndex ==
    (split.pc = "returned" /\ ~split.had_supervisor) =>
        /\ Len(split.tasks) = Len(Fragments(split.user_input))
        /\ \A k \in 1..Len(split.tasks) :
               /\ split.tasks[k].description = Fragments(split.user_input)[k]
               /\ split.tasks[k].assigned_agent = NoAgent
               /\ split.tasks[k].status = PENDING
               /\ split.tasks[k].priority = k - 1

\* C25: one split_input_into_tasks call asks the classifier at most once, with
\* an empty chat history; after a failed call or an unparsable reply the call
\* returns the fallback split without asking again
C25_ClassifierAskedOnce ==
    /\ split.classifier_calls <= 1
    /\ split.chat_history = <<>>
    /\ split.pc = "classifier_call" => split.classifier_calls = 1
    /\ (split.pc = "returned" /\ split.had_supervisor) =>
           /\ split.classifier_calls = 1
           /\ BrokenClassifier => StripIds(split.tasks) = SimpleTaskSplitting(split.user_input)
    /\ (split.pc = "returned" /\ ~split.had_supervisor) => split.classifier_calls = 0

\* a call whose classifier raised has returned fallback tasks after one request
C25_Witness ==
    /\ split.pc = "returned"
    /\ split.had_supervisor
    /\ split.script.raises
    /\ split.classifier_calls = 1
    /\ split.tasks # <<>>

\* every assistant message with tool-use in the conversation, the last message
\* aside, has the tool-result message right after it
ToolUseAnswered(conversation) ==
    \A k \in 1..Len(conversation) :
        conversation[k] = "assistant_tool_use" =>
            \/ k = Len(conversation)
            \/ conversation[k + 1] = "tool_result"

\* the last message of the conversation is an assistant message with tool-use
EndsWithToolUse(conversation) ==
    conversation # <<>> /\ conversation[Len(conversation)] = "assistant_tool_use"

\* C26: in the conversation of a provider-backed agent every assistant message
\* with tool-use parts is followed at once by its tool-result message, the
\* model is never called while a tool-use is unanswered, and the tools run
\* once for each reply with tool-use and never for a reply without
C26_ToolUseAnswered ==
    /\ ToolUseAnswered(toolLoop.conversation)
    /\ EndsWithToolUse(toolLoop.conversation) => toolLoop.pc \in {"tool_call", "raised"}
    /\ toolLoop.pc = "model_call" => ~EndsWithToolUse(toolLoop.conversation)
    /\ toolLoop.tool_runs = toolLoop.tool_use_replies
    /\ toolLoop.pc = "returned" =>
           Cardinality({k \in 1..Len(toolLoop.conversation) :
                           toolLoop.conversation[k] = "tool_result"}) = toolLoop.tool_runs

\* the model was called again after two answered tool-use replies
C26_Witness ==
    /\ toolLoop.pc = "model_call"
    /\ toolLoop.tool_runs = 2
    /\ Len(toolLoop.conversation) >= 4
    /\ toolLoop.conversation[Len(toolLoop.conversation)] = "tool_result"

\* two Messages with the same text
SameMessage(a, b) == a.none = b.none /\ TextOf(a.content) = TextOf(b.content)

\* C27: on the same replies and with the same budget the streaming loop makes
\* the model calls and tool executions of the non-streaming loop and ends with
\* the same final message, which its consumer receives once, after all chunks
C27_StreamingMatchesNonStreaming ==
    (toolLoop.streaming /\ toolLoop.pc = "returned") =>
        /\ toolLoop.reference.outcome = "returned"
        /\ toolLoop.reference.calls = toolLoop.calls
        /\ toolLoop.reference.tool_runs = toolLoop.tool_runs
        /\ toolLoop.finals = 1
        /\ toolLoop.final_is_last
        /\ SameMessage(toolLoop.stream_final,
                       SingleResponseResult(toolLoop.provider, toolLoop.reference))

\* a task with a command pattern in its description and a registered agent is
\* being started by this step
CommandTaskStarts(f) ==
    /\ call[f].pc = "loop"
    /\ call[f].i <= Len(call[f].tasks)
    /\ call'[f].pc \notin {"loop", "idle"}
    /\ call'[f].agent # NoAgent
    /\ IsCommandTask(call[f].tasks[call[f].i].description)

\* the command_execution events of a task: _execute_single_task reports one
\* just before each call of execute_command
CommandExecutions(ev, id) ==
    Cardinality({k \in 1..Len(ev) : ev[k] = Event("command_execution", id)})

\* C28: a task whose description contains "run:", "execute:" or "command" and
\* whose agent is registered never reaches the agent's process_request, and
\* its command is run through execute_command exactly once
C28_CommandTaskRunsCommand ==
    [][\A f \in Flows :
          CommandTaskStarts(f) =>
              LET t == call[f].tasks[call[f].i]
              IN  /\ call'[f].pc # "agent_call"
                  /\ CommandExecutions(events'[f], t.id)
                         = CommandExecutions(events[f], t.id) + 1]_vars

\* C29: the tasks of one decomposition are started lower priority value
\* first: in the order of their start the priorities never decrease
C29_StartedInPriorityOrder ==
    \A j, k \in 1..Len(split.started) :
        j < k => split.started[j].priority <= split.started[k].priority

\* the rule list read rule by rule over the available agents: the research
\* rule, then the coder rule, then the command rule, then the first available
\* agent
RuleListAgent(registry, availability, description) ==
    LET text == Lower(description)
        Free(n) == Available(availability, n)
        Named(n, kw) == Free(n) /\ Contains(Lower(NameText(n)), kw)
        IsResearcher(n) == Named(n, KwResearch)
        IsCoder(n) == Named(n, KwCoder)
        IsCommand(n) == Named(n, KwCommand)
        researcher == FirstThat(registry, IsResearcher)
        coder == FirstThat(registry, IsCoder)
        commander == FirstThat(registry, IsCommand)
    IN  IF AnyIn(ResearchKeywords, text) /\ researcher # NoAgent THEN researcher
        ELSE IF AnyIn(CodingKeywords, text) /\ coder # NoAgent THEN coder
        ELSE IF AnyIn(CommandKeywords, text) /\ commander # NoAgent THEN commander
        ELSE FirstThat(registry, Free)

\* C30: for every description and every registration order
\* _find_best_agent_for_task returns the agent of the rule list evaluated in
\* its stated order (research, coder, command, first available agent)
C30_HeuristicFollowsRuleList ==
    \A d \in AssignDescriptions :
        FindBestAgentForTask(agents, agent_availability, d)
            = RuleListAgent(agents, agent_availability, d)

\* C31: within one send_messages fan-out no team agent has two
\* process_request calls in flight at the same time; a dispatch that names a
\* recipient twice is not run concurrently on that agent
C31_OneCallPerMember ==
    \A j, k \in 1..Len(fanout.tasks) :
        (j # k /\ fanout.tasks[j].state = "running" /\ fanout.tasks[k].state = "running")
            => fanout.tasks[j].agent # fanout.tasks[k].agent

\* this step calls process_request for task k
Invokes(k) ==
    /\ k \in 1..Len(fanout.tasks)
    /\ fanout'.pc = fanout.pc
    /\ k \in 1..Len(fanout'.tasks)
    /\ ~fanout.tasks[k].invoked
    /\ fanout'.tasks[k].invoked

\* this step ends task k with the reply of the agent
Replies_(k) ==
    /\ k \in 1..Len(fanout.tasks)
    /\ k \in 1..Len(fanout'.tasks)
    /\ fanout.tasks[k].state = "running"
    /\ fanout'.tasks[k].state = "done"

\* C32: for a member with chat saving each successful delegation appends the
\* pair (user message, assistant reply) to the chat store of the agent, and a
\* delegation is invoked with the messages of the earlier delegations in
\* order; a delegation that raises saves nothing, and for a member without
\* chat saving the store is not written and the history passed is empty
C32_ChatStoreAccumulates ==
    [][/\ \A k \in 1..MaxMessages :
              Invokes(k) =>
                  fanout.tasks[k].history =
                      IF SaveChat(fanout.tasks[k].agent)
                      THEN fanout.store[fanout.tasks[k].agent] ELSE <<>>
       /\ \A k \in 1..MaxMessages :
              (Replies_(k) /\ SaveChat(fanout.tasks[k].agent)) =>
                  fanout'.store =
                      [fanout.store EXCEPT ![fanout.tasks[k].agent] =
                          @ \o <<ChatMessage("user", fanout.messages[fanout.tasks[k].msg].content),
                                 ChatMessage("assistant", fanout'.tasks[k].reply)>>]
       /\ (\A k \in 1..MaxMessages : ~(Replies_(k) /\ SaveChat(fanout.tasks[k].agent)))
              => fanout'.store = fanout.store]_vars

\* C33: send_messages invokes a team agent only for the messages whose
\* recipient is that agent's name; a message with an unknown recipient gets no
\* call and no segment of the result, and a dispatch without any matching
\* message invokes nobody and returns the "No agent matches" text, not an error
C33_OnlyNamedMembersInvoked ==
    /\ \A k \in 1..Len(fanout.tasks) :
           /\ fanout.tasks[k].agent \in Range(Team)
           /\ fanout.messages[fanout.tasks[k].msg].recipient = fanout.tasks[k].agent
    /\ \A j \in 1..Len(fanout.messages) : j \notin MatchedMessages => TasksOf(j) = {}
    /\ (fanout.pc = "returned" /\ MatchedMessages # {}) =>
           /\ Len(SegmentsOfResult) = Len(fanout.tasks)
           /\ \A n \in 1..Len(SegmentsOfResult) :
                  SegmentsOfResult[n] = Segment(fanout.tasks[n].agent, fanout.tasks[n].reply)
    /\ (fanout.pc # "idle" /\ MatchedMessages = {}) =>
           /\ fanout.pc = "returned"
           /\ fanout.tasks = <<>>
           /\ fanout.result = NoAgentMatches

\* a dispatch with one message for a member and one for nobody returned the
\* member's segment alone
C33_Witness ==
    /\ fanout.pc = "returned"
    /\ Len(fanout.messages) = 2
    /\ Cardinality(MatchedMessages) = 1
    /\ Len(fanout.tasks) = 1
    /\ Len(SegmentsOfResult) = 1

\* the process_request calls the execution of the flows has made
AllInvocations ==
    {x \in Flows \X (1..MaxList) : x[2] <= Len(call[x[1]].invocations)}

\* C34: every process_request call of the execution engine passes the task's
\* description, the user id "task_user", a session id made of the task's id
\* and an empty chat history; tasks with different ids never share a session
C34_InvocationPerTask ==
    /\ \A x \in AllInvocations :
           LET inv == call[x[1]].invocations[x[2]]
           IN  /\ inv.user_id = "task_user"
               /\ inv.chat_history = <<>>
               /\ \E k \in 1..Len(call[x[1]].tasks) :
                      /\ call[x[1]].tasks[k].id = inv.task_id
                      /\ inv.text = call[x[1]].tasks[k].description
                      /\ ~IsCommandTask(call[x[1]].tasks[k].description)
    /\ \A x, y \in AllInvocations :
           LET a == call[x[1]].invocations[x[2]]
               b == call[y[1]].invocations[y[2]]
           IN  a.task_id # b.task_id => a.session_id # b.session_id

\* two tasks of one list were each given to their agent
C34_Witness ==
    \E f \in Flows :
        /\ Len(call[f].invocations) = 2
        /\ call[f].invocations[1].task_id # call[f].invocations[2].task_id
        /\ call[f].pc = "done"

(***************************************************************************)
(* SupervisorAgent.process_request: the requests in flight on one          *)
(* SupervisorAgent and the identity their dispatches are made with.        *)
(***************************************************************************)
\* most send_messages calls the lead makes for one request
MaxSends == 1

\* the process_request calls on the SupervisorAgent
Requests == {1, 2}
UserIds == {"u1", "u2"}
SessionIds == {"s1", "s2"}

\* pc: idle | fetch_all_chats | lead | returned; user_id, session_id: the
\* arguments of the call; sends: the send_messages calls of its lead
IdleRequest == [pc |-> "idle", user_id |-> "", session_id |-> "", sends |-> 0]

\* user_id, session_id: self.user_id and self.session_id, '' after __init__;
\* requests: the calls; delivered: the send_message calls made, each with the
\* request it was made for, the ids it passes to the member and the key it
\* saves the chat under
IdleSup == [user_id |-> "", session_id |-> "", requests |-> [r \in Requests |-> IdleRequest],
            delivered |-> {}]

InitSup == sup = IdleSup

\* self.user_id = user_id; self.session_id = session_id
SetIds(s, user_id, session_id) ==
    [s EXCEPT !.user_id = user_id, !.session_id = session_id]

\* process_request(input_text, user_id, session_id, ...) up to
\* "await self.storage.fetch_all_chats(user_id, session_id)"
SupervisorRequestBegins(r, user_id, session_id) ==
    /\ sup.requests[r].pc = "idle"
    /\ sup' = [SetIds(sup, user_id, session_id) EXCEPT
                  !.requests[r] = [IdleRequest EXCEPT !.pc = "fetch_all_chats",
                                                      !.user_id = user_id,
                                                      !.session_id = session_id]]
    /\ UNCHANGED <<orchVars, split, toolLoop, fanout, construction, proc, assign, report, built, single, route>>

\* the chats are fetched, the prompt is set and lead_agent.process_request is
\* awaited
LeadCalled(r) ==
    /\ sup.requests[r].pc = "fetch_all_chats"
    /\ sup' = [sup EXCEPT !.requests[r].pc = "lead"]
    /\ UNCHANGED <<orchVars, split, toolLoop, fanout, construction, proc, assign, report, built, single, route>>

\* send_message(agent, content, self.user_id, self.session_id, ...): the ids
\* the member is called with and the key the chat is saved under
Delivery(r, agent, user_id, session_id) ==
    [request |-> r, agent |-> agent, user_id |-> user_id, session_id |-> session_id,
     saved_under |-> <<user_id, session_id, agent>>]

\* the lead of request r uses its send_messages tool for one team member
LeadSendsMessages(r, agent) ==
    /\ sup.requests[r].pc = "lead"
    /\ sup.requests[r].sends < MaxSends
    /\ sup' = [sup EXCEPT
                  !.requests[r].sends = @ + 1,
                  !.delivered = @ \cup {Delivery(r, agent, sup.user_id, sup.session_id)}]
    /\ UNCHANGED <<orchVars, split, toolLoop, fanout, construction, proc, assign, report, built, single, route>>

\* lead_agent.process_request returns and process_request with it
LeadReturns(r) ==
    /\ sup.requests[r].pc = "lead"
    /\ sup' = [sup EXCEPT !.requests[r].pc = "returned"]
    /\ UNCHANGED <<orchVars, split, toolLoop, fanout, construction, proc, assign, report, built, single, route>>

NextSupervisor ==
    \/ \E r \in Requests, u \in UserIds, ss \in SessionIds : SupervisorRequestBegins(r, u, ss)
    \/ \E r \in Requests : LeadCalled(r)
    \/ \E r \in Requests, a \in Range(Team) : LeadSendsMessages(r, a)
    \/ \E r \in Requests : LeadReturns(r)

\* C35: every message dispatched for a request of user U and session S is
\* delivered to the team member with U and S and saved under (U, S, agent),
\* also while another request with other ids is in flight
C35_DispatchKeepsRequestIds ==
    \A d \in sup.delivered :
        /\ d.user_id = sup.requests[d.request].user_id
        /\ d.session_id = sup.requests[d.request].session_id
        /\ d.saved_under = <<sup.requests[d.request].user_id,
                             sup.requests[d.request].session_id, d.agent>>

\* the task a flow is finishing is a command task with a registered agent
CommandTaskEnds(f) ==
    /\ call[f].pc = "finishing"
    /\ call'[f] # call[f]
    /\ call[f].agent # NoAgent
    /\ IsCommandTask(call[f].tasks[call[f].i].description)

\* C36: a command-pattern task whose assigned agent is registered always ends
\* Completed with a TaskResult of success true, whatever the command did
\* (exit code, timeout, spawn failure, execution disabled, no command found)
C36_CommandTaskCompletes ==
    [][\A f \in Flows :
          CommandTaskEnds(f) =>
              LET c == call[f]
                  after == call'[f]
              IN  /\ after.pc = "loop"
                  /\ after.tasks[c.i].status = COMPLETED
                  /\ Len(after.results) = Len(c.results) + 1
                  /\ after.results[Len(after.results)].task_id = c.tasks[c.i].id
                  /\ after.results[Len(after.results)].success]_vars

\* a list with a runnable command, with the command pattern without a command
\* and nothing else was executed to its end
C36_Witness ==
    \E f \in Flows :
        /\ call[f].pc = "done"
        /\ Len(call[f].results) = 2
        /\ call[f].tasks[1].description = DescRun
        /\ call[f].tasks[2].description = DescCommand
        /\ \A k \in 1..2 : call[f].results[k].success

(***************************************************************************)
(* One Task object: its fields and self.completed_tasks over the calls of  *)
(* _execute_single_task made for it.                                       *)
(***************************************************************************)
\* most _execute_single_task calls for the Task object
MaxRuns == 2

\* the fields of a Task the execution writes: error_message is None or the
\* text, output_data is {} (<<>>) or {"result": output}, started_at and
\* completed_at are unset (FALSE) or set
NewSingleTask(d, a) ==
    [id |-> 1, description |-> d, assigned_agent |-> a, status |-> PENDING,
     error_message |-> NoError, output_data |-> <<>>,
     started_at |-> FALSE, completed_at |-> FALSE]

\* the output of the try block: the agent's text, or the command's result
OutputOf(d) == IF IsCommandTask(d) THEN <<"result of the command">> ELSE AgentReply(d)

\* pc: none | created | returned | raised; task: the Task object; result: the
\* TaskResult of the last call that returned; output: the output of its try
\* block; completed_tasks: self.completed_tasks; runs: the calls made
IdleSingle ==
    [pc |-> "none", task |-> NewSingleTask(<<>>, NoAgent),
     result |-> TaskResult(NewSingleTask(<<>>, NoAgent), NoAgent, "none", ""),
     output |-> NoOutput, completed_tasks |-> <<>>, runs |-> 0]

InitSingle == single = IdleSingle

\* Task(description=d, assigned_agent=a)
TaskCreated(d, a) ==
    /\ single.pc = "none"
    /\ single' = [single EXCEPT !.pc = "created", !.task = NewSingleTask(d, a)]
    /\ UNCHANGED <<orchVars, split, toolLoop, fanout, construction, proc, assign, report,
                   built, sup, route>>

\* _execute_single_task(task) from its first line to its return or raise.
\* registered: an agent of self.agents has the assigned name; outcome, error:
\* how the awaited agent or command call ended; has_key: the assigned name is
\* a key of agent_task_assignments
ExecuteSingleTask(registered, outcome, error, has_key) ==
    /\ single.pc \in {"created", "returned", "raised"}
    /\ single.runs < MaxRuns
    /\ registered => single.task.assigned_agent # NoAgent
    /\ LET t == single.task
           agent == IF registered THEN t.assigned_agent ELSE NoAgent
           ended == IF registered THEN outcome ELSE "exception"
           e == IF registered THEN error ELSE NoAgentError
           output == IF ended = "completed" THEN OutputOf(t.description) ELSE NoOutput
           r == TaskResult(t, agent, ended, e)
           after == [t EXCEPT !.status = FinalStatus(ended),
                              !.started_at = TRUE,
                              !.completed_at = TRUE,
                              !.error_message = ErrorMessage(@, ended, e),
                              !.output_data = IF ended = "completed"
                                              THEN OutputData(output) ELSE @]
       IN  single' = [single EXCEPT
                         !.pc = IF t.assigned_agent # NoAgent /\ ~has_key
                                THEN "raised" ELSE "returned",
                         !.task = after,
                         !.result = r,
                         !.output = output,
                         !.completed_tasks = DictSet(@, t.id, r),
                         !.runs = @ + 1]
    /\ UNCHANGED <<orchVars, split, toolLoop, fanout, construction, proc, assign, report,
                   built, sup, route>>

NextTask ==
    \/ \E d \in Descriptions, a \in AgentPool \cup {NoAgent} : TaskCreated(d, a)
    \/ \E registered, has_key \in BOOLEAN, e \in ErrorTexts :
           ExecuteSingleTask(registered, "exception", e, has_key)
    \/ \E registered, has_key \in BOOLEAN :
           ExecuteSingleTask(registered, "completed", "", has_key)

\* C37: after _execute_single_task returned, the task and its TaskResult
\* agree: success is true exactly when the status is Completed (output_data
\* holds the output, error_message is unset) and false exactly when it is
\* Failed (error_message is the result's error); started_at and completed_at
\* are set and completed_tasks[task.id] is the result
C37_TaskAgreesWithResult ==
    single.pc = "returned" =>
        LET t == single.task
            r == single.result
        IN  /\ r.success <=> t.status = COMPLETED
            /\ r.success => (t.output_data = OutputData(single.output)
                             /\ t.error_message = NoError)
            /\ ~r.success <=> t.status = FAILED
            /\ ~r.success => t.error_message = r.error
            /\ t.started_at /\ t.completed_at
            /\ single.completed_tasks[t.id] = r

(***************************************************************************)
(* AgentTeam.route_request, _fallback_route_request and _classify_request. *)
(* The call runs on the registry of the team; between two of its awaits    *)
(* other requests of the service may add or remove agents and run tasks.   *)
(***************************************************************************)
\* the outputs of the Response objects
NoAgentsAvailable == "No agents available"
ErrorProcessingRequest == "Error processing request"

\* the user messages and the classifier's answers to the splitting prompt
RouteInputs == {<<>>, <<"a">>, <<"a", ".", "a">>}
RouteScripts ==
    {[raises |-> TRUE, reply |-> <<>>],
     [raises |-> FALSE, reply |-> <<"[", "1", "]">>],
     [raises |-> FALSE, reply |-> <<"x", "[", "{dap}", ",", "{}", "]", "x">>]}

\* the names the supervisor answers to the classification prompt
ClassifiedNames == {"Researcher", GhostName}

\* pc: idle | split_call | task_call | classify_call | fallback_call |
\* returned | raised; had_agents: self.agents was not empty when the call
\* began; empty_split: split_input_into_tasks returned an empty list; tasks:
\* the Task objects of the call; i: the task being executed; executed: the
\* _execute_single_task calls made; agent_calls: the process_request calls
\* made on the supervisor and on agents; fallback: _fallback_route_request
\* was entered; agent: the agent it chose; output: the output of the Response
IdleRoute ==
    [pc |-> "idle", user_msg |-> <<>>, had_agents |-> FALSE, empty_split |-> FALSE,
     tasks |-> <<>>, i |-> 0, executed |-> 0, agent_calls |-> 0, fallback |-> FALSE,
     agent |-> NoAgent, output |-> ""]

InitRoute == route = IdleRoute

\* the finally block of _execute_single_task for a task whose assigned_agent
\* is a: the availability after it, and whether its last line raises KeyError
FinallyOf(w, a) ==
    [w EXCEPT !.av = IF AgentIsSet(a) THEN ReleaseAvailability(@, a) ELSE @,
              !.asg = IF AgentIsSet(a) THEN DiscardAssignment(@, a, w.r.tasks[w.r.i].id)
                      ELSE @]

\* _fallback_route_request up to its first await: _classify_request returns
\* self.agents[0] or None without a supervisor and awaits the supervisor
\* otherwise; "agent = self.agents[0]" raises IndexError on an empty list
FallbackRouteRequest(w) ==
    IF supervisor = NoAgent
    THEN IF agents = <<>>
         THEN [w EXCEPT !.r.pc = "raised", !.r.fallback = TRUE]
         ELSE [w EXCEPT !.r.pc = "fallback_call", !.r.fallback = TRUE,
                        !.r.agent = agents[1], !.r.agent_calls = @ + 1]
    ELSE [w EXCEPT !.r.pc = "classify_call", !.r.fallback = TRUE,
                   !.r.agent_calls = @ + 1]

RECURSIVE ExecuteFrom(_, _)
\* execute_tasks_sequential from its k-th task up to the next await: a task
\* whose agent is not in self.agents fails without an await; the KeyError of
\* its finally block leaves the try block of route_request, whose handler
\* calls _fallback_route_request; after the last task coordinate_responses
\* builds the output and route_request returns
ExecuteFrom(w, k) ==
    IF k > Len(w.r.tasks)
    THEN [w EXCEPT !.r.pc = "returned", !.r.output = "report"]
    ELSE LET t == w.r.tasks[k]
             agent == ResolveAgent(agents, t.assigned_agent)
             began == [w EXCEPT !.r.i = k, !.r.executed = @ + 1,
                                !.r.tasks[k].status = RUNNING]
         IN  IF agent = NoAgent
             THEN LET failed == FinallyOf([began EXCEPT !.r.tasks[k].status = FAILED],
                                          t.assigned_agent)
                  IN  IF AgentIsSet(t.assigned_agent)
                         /\ FinallyRaises(w.asg, t.assigned_agent)
                      THEN FallbackRouteRequest(failed)
                      ELSE ExecuteFrom(failed, k + 1)
             ELSE [began EXCEPT !.r.pc = "task_call",
                                !.av = DictSet(@, agent, FALSE),
                                !.r.agent_calls = IF IsCommandTask(t.description)
                                                  THEN @ ELSE @ + 1]

\* route_request after split_input_into_tasks returned split_tasks: the
\* single-task fallback, assign_tasks_to_agents and execute_tasks_sequential
AfterSplit(w, split_tasks) ==
    LET tasks == RouteTasks(WithIds(split_tasks, 0), w.r.user_msg, 0)
        end == AssignLoop([tasks |-> <<>>, assignments |-> w.asg, events |-> <<>>],
                          tasks, 1)
    IN  ExecuteFrom([w EXCEPT !.r.empty_split = (split_tasks = <<>>),
                              !.r.tasks = end.tasks,
                              !.asg = end.assignments], 1)

\* the route record, the availability map and the assignment map of a step
Here == [r |-> route, av |-> agent_availability, asg |-> agent_task_assignments]

Becomes(w) ==
    /\ route' = w.r
    /\ agent_availability' = w.av
    /\ agent_task_assignments' = w.asg
    /\ UNCHANGED <<agents, supervisor, command_execution_enabled, call, events>>
    /\ UNCHANGED <<split, toolLoop, fanout, construction, proc, assign, report,
                   built, sup, single>>

\* route_request(user_msg, ...) up to its first await or its return
RouteRequest(user_msg) ==
    /\ route.pc = "idle"
    /\ LET w == [Here EXCEPT !.r.user_msg = user_msg, !.r.had_agents = (agents # <<>>)]
       IN  Becomes(IF agents = <<>>
                   THEN [w EXCEPT !.r.pc = "returned", !.r.output = NoAgentsAvailable]
                   ELSE IF supervisor = NoAgent
                   THEN AfterSplit(w, SimpleTaskSplitting(user_msg))
                   ELSE [w EXCEPT !.r.pc = "split_call", !.r.agent_calls = @ + 1])

\* the supervisor's process_request of split_input_into_tasks ends as script
RouteSplitEnds(script) ==
    /\ route.pc = "split_call"
    /\ LET parsed == ParseSupervisorResponse(script.reply)
       IN  Becomes(AfterSplit(Here,
                       IF script.raises \/ parsed.raised
                       THEN SplitFailure(route.user_msg).tasks
                       ELSE parsed.tasks))

\* the awaited agent or command call of the running task ends
RouteTaskEnds(outcome) ==
    /\ route.pc = "task_call"
    /\ LET k == route.i
           a == route.tasks[k].assigned_agent
           ended == FinallyOf([Here EXCEPT !.r.tasks[k].status = FinalStatus(outcome)], a)
       IN  Becomes(IF AgentIsSet(a) /\ FinallyRaises(agent_task_assignments, a)
                   THEN FallbackRouteRequest(ended)
                   ELSE ExecuteFrom(ended, k + 1))

\* _classify_request after the supervisor answered agent_name: the first
\* agent whose name contains the answer or is contained in it, else the
\* first agent with "coder"/"code" or "research" in its name when the answer
\* has that word, else self.agents[0]; NoAgent stands for the IndexError of
\* "self.agents[0].name" on an empty list
Classified(agent_name) ==
    LET low == Lower(NameText(agent_name))
        Named(n) == \/ Contains(Lower(NameText(n)), low)
                    \/ Contains(low, Lower(NameText(n)))
        IsCoder(n) == \/ Contains(Lower(NameText(n)), KwCoder)
                      \/ Contains(Lower(NameText(n)), KwCode)
        IsResearcher(n) == Contains(Lower(NameText(n)), KwResearch)
        named == FirstThat(agents, Named)
        partial == IF Contains(low, KwCoder) \/ Contains(low, KwCode)
                   THEN FirstThat(agents, IsCoder)
                   ELSE IF Contains(low, KwResearch)
                   THEN FirstThat(agents, IsResearcher)
                   ELSE NoAgent
    IN  IF named # NoAgent THEN named
        ELSE IF partial # NoAgent THEN partial
        ELSE IF agents = <<>> THEN NoAgent ELSE agents[1]

\* the handler of _classify_request: its print reads self.agents[0].name
ClassifyFailed == IF agents = <<>> THEN NoAgent ELSE agents[1]

\* the supervisor's process_request of _classify_request returns agent_name
\* or raises; _fallback_route_request then awaits the chosen agent
RouteClassifyEnds(raises, agent_name) ==
    /\ route.pc = "classify_call"
    /\ LET found == IF raises THEN NoAgent ELSE Classified(agent_name)
           agent == IF found = NoAgent THEN ClassifyFailed ELSE found
       IN  Becomes(IF agent = NoAgent
                   THEN [Here EXCEPT !.r.pc = "raised"]
                   ELSE [Here EXCEPT !.r.pc = "fallback_call", !.r.agent = agent,
                                     !.r.agent_calls = @ + 1])

\* agent.process_request of _fallback_route_request returns or raises
RouteFallbackEnds(outcome) ==
    /\ route.pc = "fallback_call"
    /\ Becomes([Here EXCEPT !.r.pc = "returned",
                            !.r.output = IF outcome = "completed" THEN "reply"
                                         ELSE ErrorProcessingRequest])

NextRouteRequest ==
    \/ \E n \in AgentPool : AddAgent(n)
    \/ \E n \in AgentPool : RemoveAgent(n)
    \/ AddSupervisor
    \/ RemoveSupervisor
    \/ \E n \in AgentPool : MarkBusy(n)
    \/ \E n \in AgentPool : MarkAvailable(n)
    \/ \E u \in RouteInputs : RouteRequest(u)
    \/ \E sc \in RouteScripts : RouteSplitEnds(sc)
    \/ \E outcome \in {"completed", "exception"} : RouteTaskEnds(outcome)
    \/ \E raises \in BOOLEAN, n \in ClassifiedNames : RouteClassifyEnds(raises, n)
    \/ \E outcome \in {"completed", "exception"} : RouteFallbackEnds(outcome)

\* C38: a route_request call that began with an agent registered executes at
\* least one task; when the decomposition returned an empty list, exactly one
\* task whose description is the whole user message is created, assigned and
\* executed
C38_EmptySplitRunsWholeMessage ==
    (route.pc \in {"returned", "raised"} /\ route.had_agents) =>
        /\ route.executed >= 1
        /\ route.empty_split =>
               /\ Len(route.tasks) = 1
               /\ route.tasks[1].description = route.user_msg
               /\ AgentIsSet(route.tasks[1].assigned_agent)
               /\ route.tasks[1].status \in {COMPLETED, FAILED}
               /\ route.executed = 1

\* C39: route_request returns a response and never raises: without a
\* registered agent the output is "No agents available" and no agent was
\* called; when the task pipeline raised, the whole message went to one agent
\* and the output is that agent's reply, or "Error processing request" when
\* the agent raised
C39_RouteRequestAlwaysResponds ==
    /\ route.pc # "raised"
    /\ (route.pc = "returned" /\ ~route.had_agents) =>
           (route.output = NoAgentsAvailable /\ route.agent_calls = 0)
    /\ (route.pc = "returned" /\ route.fallback) =>
           (route.agent # NoAgent /\ route.output \in {"reply", ErrorProcessingRequest})
    /\ (route.pc = "returned" /\ route.had_agents /\ ~route.fallback) =>
           route.output = "report"

(***************************************************************************)
(* Specifications.                                                         *)
(***************************************************************************)
Init ==
    /\ InitTeam /\ InitSplit /\ InitToolLoop /\ InitFanout /\ InitConstruction
    /\ InitProc /\ InitAssign /\ InitReport /\ InitBuilt /\ InitSup
    /\ InitSingle
    /\ InitRoute

\* the registry and the execution engine
Spec == Init /\ [][Next]_vars

\* the decomposition
SpecSplit == Init /\ [][NextSplit]_vars

\* the tool loop of a provider-backed agent
SpecToolLoop == Init /\ [][NextToolLoop]_vars

\* the delegation of a SupervisorAgent
SpecFanout == Init /\ [][NextFanout]_vars

\* the construction of a SupervisorAgent
SpecConstruction == Init /\ [][NextConstruction]_vars

\* the execution of terminal commands
SpecProc == Init /\ [][NextProc]_vars

\* the assignment of a task list after any registry history
SpecAssign == Init /\ [][NextAssign]_vars

\* result lists and their reports
SpecReport == Init /\ [][NextReport]_vars

\* the constructors of the agents and the first requests on them
SpecAgents == Init /\ [][NextAgents]_vars

\* one route_request call while the registry changes
SpecRouteRequest == Init /\ [][NextRouteRequest]_vars

\* one Task object executed several times
SpecTask == Init /\ [][NextTask]_vars

\* process_request calls in flight on one SupervisorAgent
SpecSupervisor == Init /\ [][NextSupervisor]_vars

\* the dispatches of one session and the chat store
SpecChat == Init /\ [][NextChat]_vars

\* route_request from the split to the start of the tasks
SpecRoute == Init /\ [][NextRoute]_vars

\* the tool loop with and without streaming
SpecStreaming == Init /\ [][NextStreaming]_vars

\* two requests in flight on one team
SpecConcurrent == Init /\ [][NextConcurrent]_vars
====
